---- MODULE Spec2Model ----
(***************************************************************************)
(* Model of the lcsc_grabber conversion core:                              *)
(*   - Model3DConfig  (kicad/model3d_config.py): the 3D override store,    *)
(*     its persisted file and the placement heuristic;                     *)
(*   - LibraryManager (kicad/library_manager.py): import / regenerate /    *)
(*     remove of components, as far as they touch the override store and   *)
(*     sequence the symbol and footprint conversions;                      *)
(*   - FootprintConverter / SymbolConverter (converters/*.py): the shape   *)
(*     parsers and the converter's shared current_footprint field.         *)
(*                                                                         *)
(* Lengths are integers in micrometres (0.001 mm), angles in degrees.       *)
(* Python's None is the empty sequence <<>>, a present value v is <<v>>.   *)
(***************************************************************************)
EXTENDS Integers, Sequences, FiniteSets, TLC

VARIABLES
    overrides,   \* Model3DConfig.overrides (in memory)
    file,        \* content of <library>/model_overrides.json
    pinned,      \* history: per id, the rotation last given to set_override
    failures,    \* history: how many writes of the file have failed
    manifest,    \* LibraryManager.manifest["components"]: id -> entry
    symLib,      \* per category, the names of the symbol blocks of its library, in file order
    fpFiles,     \* per category, its .kicad_mod files: name -> model block
    models,      \* ids that have a file in the 3D shapes directory
    categories,  \* LibraryManager.categories["categories"]: the category ids
    use_easyeda2kicad, \* LibraryManager.use_easyeda2kicad
    last,        \* the last call: its name, arguments and outcome
    parseIn,     \* parser: the payload handed to convert
    parseOut,    \* parser: what convert returned
    heap,        \* converter threads: the EasyEdaFootprint objects allocated
    current_footprint, \* FootprintConverter.current_footprint (shared field)
    pc,          \* converter threads: position of each thread in convert
    idx,         \* converter threads: next shape of the thread's payload
    result,      \* converter threads: the object each convert returned
    indent,      \* SymbolWriter._indent
    written,     \* history: what each write_symbol call was given and returned
    search_btn,  \* dialog: whether the Search button is enabled
    import_btn,  \* dialog: whether the Import button is enabled
    current_component, \* LCSCGrabberDialog.current_component
    threads,     \* dialog: the worker threads that are running, by kind
    pending      \* dialog: the callbacks given to wx.CallAfter, not yet run

vars == <<overrides, file, pinned, failures, manifest, symLib, fpFiles, models,
          categories, use_easyeda2kicad, last,
          parseIn, parseOut, heap, current_footprint, pc, idx, result, indent, written,
          search_btn, import_btn, current_component, threads, pending>>

storeVars == <<overrides, file, pinned, failures>>
libVars == <<manifest, symLib, fpFiles, models, categories, use_easyeda2kicad>>
parseVars == <<parseIn, parseOut>>
concVars == <<heap, current_footprint, pc, idx, result>>
writeVars == <<indent, written>>
guiVars == <<search_btn, import_btn, current_component, threads, pending>>

None == <<>>
Some(v) == <<v>>

Min(S) == CHOOSE x \in S : \A y \in S : x <= y
Max(S) == CHOOSE x \in S : \A y \in S : x >= y
Range(s) == {s[i] : i \in DOMAIN s}

\* F applied to the value of v, v being evaluated once
With(v, F(_)) == CHOOSE x \in {F(y) : y \in {v}} : TRUE

(***************************************************************************)
(* Component ids.  str.upper() is modelled on the ids of the model: the    *)
(* lower-case spellings map to the upper-case ones, which are fixed points.*)
(***************************************************************************)
Ids == {"c1", "C1", "C2"}

Upper(s) ==
    CASE s = "c1" -> "C1"
      [] s = "c2" -> "C2"
      [] OTHER -> s

UpperIds == {Upper(i) : i \in Ids}

(***************************************************************************)
(* Override entries.  kind "dict" is a field record {offset?, rotation?,   *)
(* scale?}; kind "junk" is a JSON value that is no record but is truthy    *)
(* (a number, a string, a non-empty list), which only a file can hold.     *)
(***************************************************************************)
Offsets == {<<100, 200, 0>>}
Rotations == {<<0, 0, 45>>}
Scales == {<<2, 2, 2>>}

Opt(S) == {None} \cup {Some(v) : v \in S}

EmptyEntry == [kind |-> "dict", offset |-> None, rotation |-> None, scale |-> None]
JunkEntry == [kind |-> "junk", offset |-> None, rotation |-> None, scale |-> None]

EmptyMap == [k \in {} |-> EmptyEntry]
EmptyStore == [kind |-> "dict", map |-> EmptyMap]
ListStore == [kind |-> "list", map |-> EmptyMap]

(***************************************************************************)
(* The persisted file: absent, text json.load rejects ("garbage"), a JSON  *)
(* scalar (len() of it raises), a JSON list or string ("list"), or a JSON  *)
(* object ("dict").                                                        *)
(***************************************************************************)
FileOf(kind, map) == [kind |-> kind, map |-> map]

AbsentFile == FileOf("absent", EmptyMap)
GarbageFile == FileOf("garbage", EmptyMap)
ScalarFile == FileOf("scalar", EmptyMap)
ListFile == FileOf("list", EmptyMap)

OneKey(k, e) == [x \in {k} |-> e]

InitFiles ==
    { AbsentFile, GarbageFile, ScalarFile, ListFile,
      FileOf("dict", EmptyMap),
      FileOf("dict", OneKey("C1", [EmptyEntry EXCEPT !.rotation = Some(<<0, 0, 45>>)])),
      FileOf("dict", OneKey("c1", [EmptyEntry EXCEPT !.rotation = Some(<<0, 0, 45>>)])),
      FileOf("dict", OneKey("C1", JunkEntry)) }

\* Model3DConfig._load_overrides (with the {} that __init__ assigns first)
load_overrides(f) ==
    CASE f.kind = "absent" -> EmptyStore      \* the file does not exist
      [] f.kind = "garbage" -> EmptyStore     \* json.load raises, caught
      [] f.kind = "scalar" -> EmptyStore      \* len(self.overrides) raises, caught
      [] f.kind = "list" -> ListStore         \* loads and stays a list
      [] OTHER -> [kind |-> "dict", map |-> f.map]

\* json.dump(self.overrides, f): what a written file holds
Dump(ov) == FileOf("dict", ov.map)

WriteOutcomes == {"ok", "open_fails", "dump_fails"}

SaveStale(ov, f, w) == f

\* Model3DConfig.save_overrides: the write, or the failure it logs and swallows
save_overrides(ov, f, w) ==
    CASE w = "ok" -> Dump(ov)
      [] w = "open_fails" -> f                \* open() raised: nothing written
      [] OTHER -> GarbageFile                 \* truncated by open(), dump raised

(***************************************************************************)
(* Footprints, as far as the heuristic reads them: the pads in declaration *)
(* order, each with its number and centre.  The pad centres of the model   *)
(* are even, so halving the bounding-box sums is exact.                    *)
(***************************************************************************)
Pad(n, x, y) == [number |-> n, x |-> x, y |-> y]

FpNoPads == [pads |-> <<>>]
FpTopLeft == [pads |-> <<Pad("1", -2000, -1000), Pad("2", 2000, 1000)>>]
FpTopRight == [pads |-> <<Pad("2", -1000, 1000), Pad("1", 3000, -1000)>>]
FpBottomRight == [pads |-> <<Pad("A", 2000, 3000), Pad("B", -2000, -1000)>>]

Footprints == {FpNoPads, FpTopLeft, FpTopRight, FpBottomRight}

\* str.isdigit() and int() on the pad numbers of the model
DigitValue ==
    [n \in {"1", "2", "3", "10"} |->
        CASE n = "1" -> 1 [] n = "2" -> 2 [] n = "3" -> 3 [] OTHER -> 10]
IsDigit(n) == n \in DOMAIN DigitValue

Pin1Names == {"1", "A1", "A", "P1"}

\* a _find_pin1 that takes the first pad whatever its number
FindFirstPad(fp) == IF fp.pads = <<>> THEN None ELSE Some(fp.pads[1])

\* Model3DConfig._find_pin1; None when the footprint has no pads
find_pin1(fp) ==
    LET named == {i \in DOMAIN fp.pads : fp.pads[i].number \in Pin1Names}
        numbered == {i \in DOMAIN fp.pads : IsDigit(fp.pads[i].number)}
        lowest == {i \in numbered : \A j \in numbered :
                      DigitValue[fp.pads[i].number] <= DigitValue[fp.pads[j].number]}
    IN  IF named # {} THEN Some(fp.pads[Min(named)])
        ELSE IF numbered # {} THEN Some(fp.pads[Min(lowest)])
        ELSE IF fp.pads # <<>> THEN Some(fp.pads[1])
        ELSE None

MinExtent == 100     \* 0.1 mm
ThresholdNum == 3    \* threshold = 0.3, as the fraction 3/10
ThresholdDen == 10

\* Model3DConfig._calculate_rotation_from_pin1
calculate_rotation_from_pin1(pin1, centroid_x, centroid_y, min_x, max_x, min_y, max_y) ==
    LET rel_x == pin1.x - centroid_x
        rel_y == pin1.y - centroid_y
        width == max_x - min_x
        height == max_y - min_y
        left == ThresholdDen * rel_x < -(ThresholdNum * width)
        right == ThresholdDen * rel_x > ThresholdNum * width
        up == ThresholdDen * rel_y < -(ThresholdNum * height)
        down == ThresholdDen * rel_y > ThresholdNum * height
    IN  IF width < MinExtent \/ height < MinExtent THEN 0
        ELSE IF left /\ up THEN 0
        ELSE IF right /\ up THEN 90
        ELSE IF right /\ down THEN 180
        ELSE IF left /\ down THEN 270
        ELSE 0

Transform(o, r, s) == [offset |-> o, rotation |-> r, scale |-> s]

\* a heuristic that leaves the model where it is
HeuristicWithoutOffset(fp) ==
    Transform(<<0, 0, 0>>, <<0, 0, 0>>, <<1, 1, 1>>)

\* Model3DConfig._calculate_heuristic_transform
calculate_heuristic_transform(fp) ==
    IF fp.pads = <<>> THEN Transform(<<0, 0, 0>>, <<0, 0, 0>>, <<1, 1, 1>>)
    ELSE
        LET xs == {fp.pads[i].x : i \in DOMAIN fp.pads}
            ys == {fp.pads[i].y : i \in DOMAIN fp.pads}
            min_x == Min(xs)
            max_x == Max(xs)
            min_y == Min(ys)
            max_y == Max(ys)
            centroid_x == (min_x + max_x) \div 2
            centroid_y == (min_y + max_y) \div 2
            pin1 == find_pin1(fp)
            rotation_z == IF pin1 # None
                          THEN calculate_rotation_from_pin1(pin1[1], centroid_x, centroid_y,
                                                            min_x, max_x, min_y, max_y)
                          ELSE 0
        IN  Transform(<<-centroid_x, -centroid_y, 0>>, <<0, 0, rotation_z>>, <<1, 1, 1>>)

(***************************************************************************)
(* The override store's operations, as functions of the store.  A call     *)
(* that raises is reported with raised = TRUE.                             *)
(***************************************************************************)
MapPut(m, k, e) == [x \in (DOMAIN m) \cup {k} |-> IF x = k THEN e ELSE m[x]]
MapDel(m, k) == [x \in (DOMAIN m) \ {k} |-> m[x]]

\* Model3DConfig.get_override: self.overrides.get(lcsc_id.upper())
get_override(ov, lcsc_id) ==
    IF ov.kind # "dict" THEN [raised |-> TRUE, val |-> None]     \* a list has no .get
    ELSE IF Upper(lcsc_id) \in DOMAIN ov.map
         THEN [raised |-> FALSE, val |-> Some(ov.map[Upper(lcsc_id)])]
         ELSE [raised |-> FALSE, val |-> None]

\* a field assignment that does not test the argument for None
SetAlways(old, given) == given

SetUnlessGiven(old, given) == IF given # None THEN given ELSE old

\* Model3DConfig.set_override, up to (not including) the save
set_override(ov, lcsc_id, offset, rotation, scale) ==
    LET key == Upper(lcsc_id)
        given == offset # None \/ rotation # None \/ scale # None
    IN  IF ov.kind # "dict"
        THEN [raised |-> TRUE, ov |-> ov]      \* list[str] = {} is a TypeError
        ELSE LET m1 == IF key \in DOMAIN ov.map THEN ov.map
                       ELSE MapPut(ov.map, key, EmptyEntry)
                 e == m1[key]
             IN  IF e.kind # "dict" /\ given
                 THEN [raised |-> TRUE, ov |-> ov]   \* item assignment on a non-dict
                 ELSE [raised |-> FALSE,
                       ov |-> [ov EXCEPT !.map = MapPut(m1, key,
                                 [e EXCEPT !.offset = SetUnlessGiven(@, offset),
                                           !.rotation = SetUnlessGiven(@, rotation),
                                           !.scale = SetUnlessGiven(@, scale)])]]

\* Model3DConfig.remove_override, up to the save: deleted says whether it saves
remove_override(ov, lcsc_id) ==
    IF ov.kind = "dict" /\ Upper(lcsc_id) \in DOMAIN ov.map
    THEN [deleted |-> TRUE, ov |-> [ov EXCEPT !.map = MapDel(@, Upper(lcsc_id))]]
    ELSE [deleted |-> FALSE, ov |-> ov]

\* Python truthiness of what get_override returned
Truthy(e) == e.kind # "dict" \/ e.offset # None \/ e.rotation # None \/ e.scale # None

OrDefault(field, default) == IF field # None THEN field[1] ELSE default

CalculateIgnoringOverride(ov, lcsc_id, fp) ==
    [raised |-> FALSE, val |-> Some(calculate_heuristic_transform(fp))]

\* Model3DConfig.calculate_transform
calculate_transform(ov, lcsc_id, fp) ==
    LET got == get_override(ov, lcsc_id)
    IN  IF got.raised THEN [raised |-> TRUE, val |-> None]
        ELSE IF got.val # None /\ Truthy(got.val[1])
        THEN IF got.val[1].kind # "dict"
             THEN [raised |-> TRUE, val |-> None]     \* a non-dict has no .get
             ELSE [raised |-> FALSE,
                   val |-> Some(Transform(OrDefault(got.val[1].offset, <<0, 0, 0>>),
                                          OrDefault(got.val[1].rotation, <<0, 0, 0>>),
                                          OrDefault(got.val[1].scale, <<1, 1, 1>>)))]
        ELSE [raised |-> FALSE, val |-> Some(calculate_heuristic_transform(fp))]

(***************************************************************************)
(* State of the override store (Model3DConfig) and the calls on it.        *)
(***************************************************************************)
Unpinned == [st |-> "none", rot |-> None]
NoPins == [k \in UpperIds |-> Unpinned]

\* history kept beside set_override: the rotation the caller last passed for key
PinAfterSet(p, key, rotation) ==
    [p EXCEPT ![key] = IF rotation # None THEN [st |-> "set", rot |-> rotation]
                       ELSE IF @.st = "set" THEN @ ELSE Unpinned]

\* history kept beside remove_override: key was set before and is now removed
PinAfterRemove(p, key) ==
    [p EXCEPT ![key] = IF @.st = "none" THEN @ ELSE [st |-> "removed", rot |-> None]]

\* the last call: its name, whether it raised, and what its save did
\* ("none": it did not save)
Call(op, raised, wrote) == [op |-> op, raised |-> raised, wrote |-> wrote]

\* Model3DConfig.__init__: the store a session starts with
StoreInit ==
    /\ file \in InitFiles
    /\ overrides = load_overrides(file)
    /\ pinned = NoPins

\* the model follows at most MaxWriteFailures failed writes
MaxWriteFailures == 1
CanWrite(w) == w = "ok" \/ failures < MaxWriteFailures
Failed(w) == IF w # "ok" THEN failures + 1 ELSE failures

\* the effect of set_override(lcsc_id, offset, rotation, scale) on the store,
\* its save included; w is the outcome of the write
DoSetOverride(lcsc_id, offset, rotation, scale, w) ==
    LET r == set_override(overrides, lcsc_id, offset, rotation, scale)
    IN  IF r.raised
        THEN /\ w = "ok"
             /\ UNCHANGED storeVars
        ELSE /\ overrides' = r.ov
             /\ file' = save_overrides(r.ov, file, w)
             /\ pinned' = PinAfterSet(pinned, Upper(lcsc_id), rotation)
             /\ failures' = Failed(w)

\* the effect of remove_override(lcsc_id) on the store, its save included
DoRemoveOverride(lcsc_id, w) ==
    LET r == remove_override(overrides, lcsc_id)
    IN  /\ pinned' = PinAfterRemove(pinned, Upper(lcsc_id))
        /\ IF r.deleted
           THEN /\ overrides' = r.ov
                /\ file' = save_overrides(r.ov, file, w)
                /\ failures' = Failed(w)
           ELSE /\ w = "ok"
                /\ UNCHANGED <<overrides, file, failures>>

\* LibraryManager.DEFAULT_CATEGORY, and the category ids of the model
DEFAULT_CATEGORY == "misc"
CategoryIds == {"misc", "res"}

\* LibraryManager.__init__ over an empty directory; the libraries of every
\* category id are empty, as _ensure_category_libs_exist makes them
LibEmpty ==
    /\ manifest = <<>>
    /\ symLib = [c \in CategoryIds |-> <<>>]
    /\ fpFiles = [c \in CategoryIds |-> <<>>]
    /\ models = {}
    /\ categories = <<DEFAULT_CATEGORY>>

\* the same, easyeda2kicad not installed
LibIdle == LibEmpty /\ use_easyeda2kicad = FALSE
ParseIdle == parseIn = None /\ parseOut = None
ConcIdle ==
    /\ heap = <<>>
    /\ current_footprint = 0
    /\ pc = <<>>
    /\ idx = <<>>
    /\ result = <<>>
WriteIdle == indent = 0 /\ written = <<>>

\* LCSCGrabberDialog.__init__: Search enabled, Import disabled, no component,
\* no worker thread
GuiIdle ==
    /\ search_btn = TRUE
    /\ import_btn = FALSE
    /\ current_component = None
    /\ threads = [search |-> 0, import |-> 0]
    /\ pending = <<>>

Init ==
    /\ StoreInit
    /\ LibIdle
    /\ ParseIdle
    /\ ConcIdle
    /\ WriteIdle
    /\ GuiIdle
    /\ failures = 0
    /\ last = Call("init", FALSE, "none")

\* Model3DConfig.set_override
SetOverride ==
    \E id \in Ids, offset \in Opt(Offsets), rotation \in Opt(Rotations),
       scale \in Opt(Scales), w \in WriteOutcomes :
        /\ CanWrite(w)
        /\ DoSetOverride(id, offset, rotation, scale, w)
        /\ last' = IF set_override(overrides, id, offset, rotation, scale).raised
                   THEN Call("set_override", TRUE, "none")
                   ELSE Call("set_override", FALSE, w)
        /\ UNCHANGED <<libVars, parseVars, concVars, writeVars, guiVars>>

\* Model3DConfig.remove_override
RemoveOverride ==
    \E id \in Ids, w \in WriteOutcomes :
        /\ CanWrite(w)
        /\ DoRemoveOverride(id, w)
        /\ last' = IF remove_override(overrides, id).deleted
                   THEN Call("remove_override", FALSE, w)
                   ELSE Call("remove_override", FALSE, "none")
        /\ UNCHANGED <<libVars, parseVars, concVars, writeVars, guiVars>>

\* Model3DConfig.get_override
GetOverride ==
    \E id \in Ids :
        /\ last' = Call("get_override", get_override(overrides, id).raised, "none")
        /\ UNCHANGED <<storeVars, libVars, parseVars, concVars, writeVars, guiVars>>

\* Model3DConfig.calculate_transform
CalculateTransform ==
    \E id \in Ids, fp \in Footprints :
        /\ last' = Call("calculate_transform",
                        calculate_transform(overrides, id, fp).raised, "none")
        /\ UNCHANGED <<storeVars, libVars, parseVars, concVars, writeVars, guiVars>>

\* a new session: Model3DConfig(library_path) over the file as it now is
Construct ==
    /\ overrides' = load_overrides(file)
    /\ pinned' = NoPins
    /\ last' = Call("construct", FALSE, "none")
    /\ UNCHANGED <<file, failures, libVars, parseVars, concVars, writeVars, guiVars>>

Next ==
    \/ SetOverride
    \/ RemoveOverride
    \/ GetOverride
    \/ CalculateTransform
    \/ Construct

Spec == Init /\ [][Next]_vars

(***************************************************************************)
(* Claims about the override store, checked under Spec.                    *)
(***************************************************************************)

\* what calculate_transform returns for id's entry when the entry is a field
\* record: its values, zero offset/rotation and unit scale for missing fields
Verbatim(e) ==
    [raised |-> FALSE,
     val |-> Some(Transform(OrDefault(e.offset, <<0, 0, 0>>),
                            OrDefault(e.rotation, <<0, 0, 0>>),
                            OrDefault(e.scale, <<1, 1, 1>>)))]

\* C1: from a set_override(id, rotation=r) that returned until the next
\* remove_override(id), calculate_transform(id, fp) returns rotation r for
\* every footprint and every spelling of id; from that remove_override(id)
\* on (until id is set again) it returns the heuristic result of fp.
C1_OverridePrecedence ==
    \A id \in Ids, fp \in Footprints :
        LET r == calculate_transform(overrides, id, fp)
            pin == pinned[Upper(id)]
        IN  /\ pin.st = "set" =>
                  /\ ~r.raised
                  /\ r.val[1].rotation = pin.rot[1]
            /\ pin.st = "removed" =>
                  /\ ~r.raised
                  /\ r.val[1] = calculate_heuristic_transform(fp)

C1_Witness ==
    /\ last.op = "calculate_transform"
    /\ pinned["C1"].st = "set"
    /\ pinned["C2"].st = "removed"
    /\ calculate_heuristic_transform(FpTopRight).rotation # pinned["C1"].rot[1]

\* C2: whenever the store holds a field record for the uppercased id,
\* calculate_transform returns that record's values with the defaults for
\* missing fields, whatever the footprint, whichever fields are present.
C2_OverrideVerbatim ==
    \A id \in Ids, fp \in Footprints :
        LET got == get_override(overrides, id)
        IN  (~got.raised /\ got.val # None /\ got.val[1].kind = "dict")
                => calculate_transform(overrides, id, fp) = Verbatim(got.val[1])

InvalidFile(f) ==
    \/ f.kind \in {"garbage", "scalar", "list"}
    \/ f.kind = "dict" /\ \E k \in DOMAIN f.map : f.map[k].kind # "dict"

\* C4: a store constructed over an invalid file is empty, and no later call
\* on it raises (calls on a store over a valid file never raise).
C4_InvalidFileGivesEmptyStore ==
    /\ (last.op \in {"init", "construct"} /\ InvalidFile(file))
           => overrides = EmptyStore
    /\ ~last.raised

\* C5: every key of the in-memory mapping is an uppercased id.
C5_KeysUppercase ==
    \A k \in DOMAIN overrides.map : Upper(k) = k

\* the fields of the entry of key, None for a field (or an entry) that is absent
FieldsOf(ov, key) ==
    IF key \in DOMAIN ov.map THEN ov.map[key] ELSE EmptyEntry

\* what set_override(lcsc_id, offset, rotation, scale) may change in store
\* ov, r being what it returned
SetOverrideFrame(ov, lcsc_id, offset, rotation, scale, r) ==
    LET key == Upper(lcsc_id)
    IN  IF r.raised THEN r.ov = ov
        ELSE /\ DOMAIN r.ov.map = DOMAIN ov.map \cup {key}
             /\ \A k \in DOMAIN ov.map : k # key => r.ov.map[k] = ov.map[k]
             /\ r.ov.map[key].offset
                  = IF offset # None THEN offset ELSE FieldsOf(ov, key).offset
             /\ r.ov.map[key].rotation
                  = IF rotation # None THEN rotation ELSE FieldsOf(ov, key).rotation
             /\ r.ov.map[key].scale
                  = IF scale # None THEN scale ELSE FieldsOf(ov, key).scale

Field(parts, k) == parts[k + 1]

\* float() on the tokens of the model; every other token makes it raise
NumValue ==
    [t \in {"0", "1", "2", "4", "10", "20", "30", "-10", "90", "270"} |->
        CASE t = "0" -> 0 [] t = "1" -> 1 [] t = "2" -> 2 [] t = "4" -> 4
          [] t = "10" -> 10 [] t = "20" -> 20 [] t = "30" -> 30
          [] t = "-10" -> -10 [] t = "90" -> 90 [] OTHER -> 270]

\* utils.geometry.parse_float: the default 0.0 when float() raises
parse_float(value) == IF value \in DOMAIN NumValue THEN NumValue[value] ELSE 0

SCALE == 254         \* 0.254 mm per source unit
MinStroke == 100     \* 0.1 mm
MinFont == 500       \* 0.5 mm
DefaultStroke == 120 \* 0.12 mm
CourtyardMargin == 250  \* 0.25 mm
CourtyardStroke == 50   \* 0.05 mm
MinViaDrill == 100   \* 0.1 mm

\* str.upper() / str.lower() on the tags and type words of the model
UpperWord(s) ==
    CASE s = "pad" -> "PAD" [] s = "rect" -> "RECT" [] s = "p" -> "P" [] OTHER -> s
LowerWord(s) ==
    CASE s = "REF" -> "ref" [] s = "VAL" -> "val" [] OTHER -> s

\* re.split(r'[,\s]+', s.strip()) on the point-list and path tokens of the
\* model (M, L, Z already blanked for a path); any other token is one value
SplitTable ==
    [t \in {"0 0 10 0", "0 0 10 0 10 10", "0 0 10", "M 0 0 L 10 0 L 10 10 Z"} |->
        CASE t = "0 0 10 0" -> <<"0", "0", "10", "0">>
          [] t = "0 0 10 0 10 10" -> <<"0", "0", "10", "0", "10", "10">>
          [] t = "0 0 10" -> <<"0", "0", "10">>
          [] OTHER -> <<"0", "0", "10", "0", "10", "10">>]
SplitValues(t) == IF t \in DOMAIN SplitTable THEN SplitTable[t] ELSE <<t>>

\* the two regular expressions of _parse_arc_path on the path tokens of the
\* model: the groups x1, y1, rx, ry, x2, y2, or no match
ArcTable ==
    [t \in {"M 0 0 A 10 10 0 0 1 20 0", "M 0 10 A 10 10 0 0 1 0 -10"} |->
        CASE t = "M 0 0 A 10 10 0 0 1 20 0" -> <<"0", "0", "10", "10", "20", "0">>
          [] OTHER -> <<"0", "10", "10", "10", "0", "-10">>]

\* math.degrees(math.atan2(dy, dx)) on the axes, which is where the arcs of
\* the model have their end points
Atan2Deg(dy, dx) ==
    IF dy = 0 THEN (IF dx < 0 THEN 180 ELSE 0)
    ELSE IF dy > 0 THEN 90 ELSE -90

\* api.models.EASYEDA_LAYER_MAP / get_kicad_layer
LayerMap ==
    [l \in {"1", "2", "3", "4", "5", "6", "7", "8", "10", "11", "12", "13", "14",
            "15", "21", "22", "99", "100", "101"} |->
        CASE l = "1" -> "F.Cu" [] l = "2" -> "B.Cu" [] l = "3" -> "F.SilkS"
          [] l = "4" -> "B.SilkS" [] l = "5" -> "F.Paste" [] l = "6" -> "B.Paste"
          [] l = "7" -> "F.Mask" [] l = "8" -> "B.Mask" [] l = "10" -> "Edge.Cuts"
          [] l = "11" -> "Edge.Cuts" [] l = "12" -> "Cmts.User" [] l = "13" -> "F.Fab"
          [] l = "14" -> "B.Fab" [] l = "15" -> "Dwgs.User" [] l = "21" -> "F.CrtYd"
          [] l = "22" -> "B.CrtYd" [] l = "99" -> "F.Fab" [] OTHER -> "F.SilkS"]
get_kicad_layer(l) == IF l \in DOMAIN LayerMap THEN LayerMap[l] ELSE "F.SilkS"

FrontLayers == {"F.Cu", "F.SilkS", "F.Paste", "F.Mask", "F.Fab", "F.CrtYd"}

\* FootprintConverter.PAD_SHAPE_MAP.get(shape_str, PadShape.RECT)
pad_shape(shape_str) ==
    CASE shape_str \in {"ELLIPSE", "ROUND"} -> "circle"
      [] shape_str = "OVAL" -> "oval"
      [] shape_str = "POLYGON" -> "custom"
      [] OTHER -> "rect"

MaxOf(a, b) == IF a >= b THEN a ELSE b

\* EasyEdaFootprint(name=component_name)
NewFootprint(name) ==
    [name |-> name, pads |-> <<>>, lines |-> <<>>, circles |-> <<>>, arcs |-> <<>>,
     polygons |-> <<>>, texts |-> <<>>, holes |-> <<>>, bounds |-> None]

FootprintLine(x1, y1, x2, y2, layer, stroke_width) ==
    [x1 |-> x1, y1 |-> y1, x2 |-> x2, y2 |-> y2, layer |-> layer,
     stroke_width |-> stroke_width]

\* the FootprintPad that _parse_pad builds from the fields; a field the
\* command lacks reads as ""
PadField(parts, k) == IF k + 1 <= Len(parts) THEN parts[k + 1] ELSE ""

PadOf(parts) ==
    LET hole_radius == IF Len(parts) > 9 THEN parse_float(Field(parts, 9)) * SCALE ELSE 0
        thru == Len(parts) > 9 /\ hole_radius > 0
        kicad_layer == get_kicad_layer(PadField(parts, 6))
    IN  [number |-> PadField(parts, 8),
         x |-> parse_float(PadField(parts, 2)) * SCALE,
         y |-> -(parse_float(PadField(parts, 3)) * SCALE),
         width |-> parse_float(PadField(parts, 4)) * SCALE,
         height |-> parse_float(PadField(parts, 5)) * SCALE,
         shape |-> pad_shape(UpperWord(PadField(parts, 1))),
         pad_type |-> IF thru THEN "thru_hole" ELSE "smd",
         rotation |-> IF Len(parts) > 11 THEN parse_float(Field(parts, 11)) ELSE 0,
         drill_size |-> IF thru THEN hole_radius * 2 ELSE 0,
         layers |-> IF thru THEN <<"*.Cu", "*.Paste", "*.Mask">>
                    ELSE IF kicad_layer \in FrontLayers
                    THEN <<"F.Cu", "F.Paste", "F.Mask">>
                    ELSE <<"B.Cu", "B.Paste", "B.Mask">>]

\* a _parse_pad that accepts a short command and reads the missing fields as ""
ParsePadLenient(fp, parts) ==
    IF Len(parts) < 3 THEN fp
    ELSE [fp EXCEPT !.pads = Append(@, PadOf(parts))]

\* FootprintConverter._parse_pad
parse_pad(fp, parts) ==
    IF Len(parts) < 9 THEN fp
    ELSE [fp EXCEPT !.pads = Append(@, PadOf(parts))]

\* FootprintConverter._parse_point_list: the scaled (x, y) pairs
parse_point_list(points_str) ==
    LET values == SplitValues(points_str)
        n == (Len(values) - 1 + 1) \div 2     \* len(range(0, len(values) - 1, 2))
    IN  [i \in 1..n |-> <<parse_float(values[2 * i - 1]) * SCALE,
                          parse_float(values[2 * i]) * SCALE>>]

\* FootprintConverter._parse_track
parse_track(fp, parts) ==
    IF Len(parts) < 5 THEN fp
    ELSE
        LET stroke_width == parse_float(Field(parts, 1)) * SCALE
            kicad_layer == get_kicad_layer(Field(parts, 2))
            points == parse_point_list(Field(parts, 4))
            n == IF Len(points) > 0 THEN Len(points) - 1 ELSE 0
        IN  [fp EXCEPT !.lines = @ \o
                [i \in 1..n |-> FootprintLine(points[i][1], -points[i][2],
                                              points[i + 1][1], -points[i + 1][2],
                                              kicad_layer, MaxOf(stroke_width, MinStroke))]]

\* a _parse_circle that takes the stroke width as it is in the command
ParseCircleUnclamped(fp, parts) ==
    IF Len(parts) < 6 THEN fp
    ELSE [fp EXCEPT !.circles = Append(@,
            [cx |-> parse_float(Field(parts, 1)) * SCALE,
             cy |-> -(parse_float(Field(parts, 2)) * SCALE),
             radius |-> parse_float(Field(parts, 3)) * SCALE,
             layer |-> get_kicad_layer(Field(parts, 5)),
             stroke_width |-> parse_float(Field(parts, 4)) * SCALE])]

\* FootprintConverter._parse_circle
parse_circle(fp, parts) ==
    IF Len(parts) < 6 THEN fp
    ELSE [fp EXCEPT !.circles = Append(@,
            [cx |-> parse_float(Field(parts, 1)) * SCALE,
             cy |-> -(parse_float(Field(parts, 2)) * SCALE),
             radius |-> parse_float(Field(parts, 3)) * SCALE,
             layer |-> get_kicad_layer(Field(parts, 5)),
             stroke_width |-> MaxOf(parse_float(Field(parts, 4)) * SCALE, MinStroke)])]

\* FootprintConverter._parse_arc_path: (cx, cy, radius, start_angle, end_angle)
parse_arc_path(path_data) ==
    IF path_data \notin DOMAIN ArcTable THEN None
    ELSE
        LET g == ArcTable[path_data]
            x1 == parse_float(g[1]) * SCALE
            y1 == parse_float(g[2]) * SCALE
            rx == parse_float(g[3]) * SCALE
            ry == parse_float(g[4]) * SCALE
            x2 == parse_float(g[5]) * SCALE
            y2 == parse_float(g[6]) * SCALE
            cx == (x1 + x2) \div 2
            cy == (y1 + y2) \div 2
        IN  Some(<<cx, cy, (rx + ry) \div 2,
                   Atan2Deg(y1 - cy, x1 - cx), Atan2Deg(y2 - cy, x2 - cx)>>)

\* FootprintConverter._parse_arc
parse_arc(fp, parts) ==
    IF Len(parts) < 5 THEN fp
    ELSE
        LET arc_params == parse_arc_path(Field(parts, 4))
        IN  IF arc_params = None THEN fp
            ELSE [fp EXCEPT !.arcs = Append(@,
                    [cx |-> arc_params[1][1],
                     cy |-> -arc_params[1][2],
                     radius |-> arc_params[1][3],
                     start_angle |-> -arc_params[1][5],
                     end_angle |-> -arc_params[1][4],
                     layer |-> get_kicad_layer(Field(parts, 2)),
                     stroke_width |-> MaxOf(parse_float(Field(parts, 1)) * SCALE, MinStroke)])]

\* FootprintConverter._parse_rect
parse_rect(fp, parts) ==
    IF Len(parts) < 6 THEN fp
    ELSE
        LET x == parse_float(Field(parts, 1)) * SCALE
            y_flipped == -(parse_float(Field(parts, 2)) * SCALE)
            width == parse_float(Field(parts, 3)) * SCALE
            height == parse_float(Field(parts, 4)) * SCALE
            kicad_layer == get_kicad_layer(Field(parts, 5))
        IN  [fp EXCEPT !.lines = @ \o
                <<FootprintLine(x, y_flipped, x + width, y_flipped, kicad_layer, DefaultStroke),
                  FootprintLine(x + width, y_flipped, x + width, y_flipped - height,
                                kicad_layer, DefaultStroke),
                  FootprintLine(x + width, y_flipped - height, x, y_flipped - height,
                                kicad_layer, DefaultStroke),
                  FootprintLine(x, y_flipped - height, x, y_flipped, kicad_layer,
                                DefaultStroke)>>]

\* FootprintConverter._parse_svg_path_points: the scaled (x, y) pairs
parse_svg_path_points(path_str) ==
    LET values == SplitValues(path_str)
        n == Len(values) \div 2       \* pairs taken while i < len(values) - 1
    IN  [i \in 1..n |-> <<parse_float(values[2 * i - 1]) * SCALE,
                          parse_float(values[2 * i]) * SCALE>>]

\* FootprintConverter._parse_solid_region
parse_solid_region(fp, parts) ==
    IF Len(parts) < 4 THEN fp
    ELSE IF Field(parts, 1) \in {"99", "100", "101"} THEN fp
    ELSE
        LET points == parse_svg_path_points(Field(parts, 3))
        IN  IF points = <<>> THEN fp
            ELSE [fp EXCEPT !.polygons = Append(@,
                    [points |-> [i \in DOMAIN points |-> <<points[i][1], -points[i][2]>>],
                     layer |-> get_kicad_layer(Field(parts, 1)),
                     stroke_width |-> DefaultStroke])]

\* FootprintConverter._parse_text
parse_text(fp, parts) ==
    IF Len(parts) < 11 THEN fp
    ELSE
        LET text_type_str == LowerWord(Field(parts, 1))
            text_type == IF text_type_str \in {"ref", "reference"} THEN "reference"
                         ELSE IF text_type_str \in {"val", "value"} THEN "value"
                         ELSE "user"
        IN  [fp EXCEPT !.texts = Append(@,
                [text |-> IF text_type = "reference" THEN "REF**" ELSE Field(parts, 10),
                 x |-> parse_float(Field(parts, 2)) * SCALE,
                 y |-> -(parse_float(Field(parts, 3)) * SCALE),
                 layer |-> get_kicad_layer(Field(parts, 7)),
                 font_size |-> MaxOf(parse_float(Field(parts, 9)) * SCALE, MinFont),
                 thickness |-> MaxOf(parse_float(Field(parts, 4)) * SCALE, MinStroke),
                 rotation |-> parse_float(Field(parts, 5)),
                 text_type |-> text_type])]

\* FootprintConverter._parse_hole
parse_hole(fp, parts) ==
    IF Len(parts) < 4 THEN fp
    ELSE [fp EXCEPT !.holes = Append(@,
            [x |-> parse_float(Field(parts, 1)) * SCALE,
             y |-> -(parse_float(Field(parts, 2)) * SCALE),
             diameter |-> parse_float(Field(parts, 3)) * SCALE])]

\* FootprintConverter._parse_via
parse_via(fp, parts) ==
    IF Len(parts) < 5 THEN fp
    ELSE
        LET diameter == parse_float(Field(parts, 3)) * SCALE
            drill == parse_float(Field(parts, 4)) * SCALE
        IN  IF drill > MinViaDrill
            THEN [fp EXCEPT !.pads = Append(@,
                    [number |-> "",
                     x |-> parse_float(Field(parts, 1)) * SCALE,
                     y |-> -(parse_float(Field(parts, 2)) * SCALE),
                     width |-> diameter, height |-> diameter, shape |-> "circle",
                     pad_type |-> "thru_hole", rotation |-> 0, drill_size |-> drill,
                     layers |-> <<"*.Cu">>])]
            ELSE fp

\* FootprintConverter._parse_shape_string; a shape is [isstr, parts], the empty
\* string being the one field ""
parse_shape_string(fp, shape) ==
    IF shape.parts = <<"">> THEN fp
    ELSE
        LET shape_type == UpperWord(Field(shape.parts, 0))
        IN  CASE shape_type = "PAD" -> parse_pad(fp, shape.parts)
              [] shape_type = "TRACK" -> parse_track(fp, shape.parts)
              [] shape_type = "CIRCLE" -> parse_circle(fp, shape.parts)
              [] shape_type = "ARC" -> parse_arc(fp, shape.parts)
              [] shape_type = "RECT" -> parse_rect(fp, shape.parts)
              [] shape_type = "SOLIDREGION" -> parse_solid_region(fp, shape.parts)
              [] shape_type = "TEXT" -> parse_text(fp, shape.parts)
              [] shape_type = "HOLE" -> parse_hole(fp, shape.parts)
              [] shape_type = "VIA" -> parse_via(fp, shape.parts)
              [] OTHER -> fp

(***************************************************************************)
(* A payload is [kind, shape, nested]: kind "dict" is a mapping, "json" a   *)
(* string holding the JSON text of that mapping, "badjson" a string that    *)
(* is not JSON, "list" a JSON value that is not a mapping.  shape is the    *)
(* list under "shape" (what split("#@$") leaves of a joined string), each   *)
(* shape [isstr, parts]; nested is the value under "dataStr", None when     *)
(* the key is absent.                                                       *)
(***************************************************************************)
Shape(parts) == [isstr |-> TRUE, parts |-> parts]
DictShape == [isstr |-> FALSE, parts |-> <<>>]
Payload(kind, shape, nested) == [kind |-> kind, shape |-> shape, nested |-> nested]

\* the loop of _parse_footprint_data over the shapes
RECURSIVE ParseShapes(_, _)
ParseShapes(fp, shapes) ==
    IF shapes = <<>> THEN fp
    ELSE ParseShapes(IF Head(shapes).isstr THEN parse_shape_string(fp, Head(shapes))
                     ELSE fp,
                     Tail(shapes))

\* FootprintConverter._parse_footprint_data
parse_footprint_data(fp, data) ==
    LET parsed == ParseShapes(fp, data.shape)
    IN  IF data.nested = None THEN parsed
        ELSE IF data.nested[1].kind \in {"dict", "json"}
             THEN ParseShapes(parsed, data.nested[1].shape)
             ELSE parsed

PointsX(points) == {points[i][1] : i \in DOMAIN points}
PointsY(points) == {points[i][2] : i \in DOMAIN points}

LineEnds(lines) ==
    [k \in 1..(2 * Len(lines)) |->
        IF k % 2 = 1 THEN <<lines[(k + 1) \div 2].x1, lines[(k + 1) \div 2].y1>>
        ELSE <<lines[k \div 2].x2, lines[k \div 2].y2>>]

\* FootprintConverter._calculate_bounds_and_center
calculate_bounds_and_center(fp) ==
    LET pad_points == [i \in DOMAIN fp.pads |-> <<fp.pads[i].x, fp.pads[i].y>>]
        all_points ==
            IF pad_points # <<>> THEN pad_points
            ELSE LineEnds(fp.lines) \o
                 [i \in DOMAIN fp.circles |-> <<fp.circles[i].cx, fp.circles[i].cy>>]
    IN  IF all_points = <<>> THEN fp
        ELSE
            LET center_x == (Min(PointsX(all_points)) + Max(PointsX(all_points))) \div 2
                center_y == (Min(PointsY(all_points)) + Max(PointsY(all_points))) \div 2
            IN  [fp EXCEPT
                    !.pads = [i \in DOMAIN @ |->
                        [@[i] EXCEPT !.x = @ - center_x, !.y = @ - center_y]],
                    !.lines = [i \in DOMAIN @ |->
                        [@[i] EXCEPT !.x1 = @ - center_x, !.y1 = @ - center_y,
                                     !.x2 = @ - center_x, !.y2 = @ - center_y]],
                    !.circles = [i \in DOMAIN @ |->
                        [@[i] EXCEPT !.cx = @ - center_x, !.cy = @ - center_y]],
                    !.arcs = [i \in DOMAIN @ |->
                        [@[i] EXCEPT !.cx = @ - center_x, !.cy = @ - center_y]],
                    !.polygons = [i \in DOMAIN @ |->
                        [@[i] EXCEPT !.points = [j \in DOMAIN @ |->
                            <<@[j][1] - center_x, @[j][2] - center_y>>]]],
                    !.texts = [i \in DOMAIN @ |->
                        [@[i] EXCEPT !.x = @ - center_x, !.y = @ - center_y]],
                    !.holes = [i \in DOMAIN @ |->
                        [@[i] EXCEPT !.x = @ - center_x, !.y = @ - center_y]]]

RECURSIVE Flatten(_)
Flatten(ss) == IF ss = <<>> THEN <<>> ELSE Head(ss) \o Flatten(Tail(ss))

\* FootprintConverter._calculate_bounds, with utils.geometry.bounding_box
calculate_bounds(fp) ==
    LET all_points ==
            Flatten([i \in DOMAIN fp.pads |->
                <<<<fp.pads[i].x - fp.pads[i].width \div 2,
                    fp.pads[i].y - fp.pads[i].height \div 2>>,
                  <<fp.pads[i].x + fp.pads[i].width \div 2,
                    fp.pads[i].y + fp.pads[i].height \div 2>>>>])
            \o LineEnds(fp.lines)
            \o Flatten([i \in DOMAIN fp.circles |->
                <<<<fp.circles[i].cx - fp.circles[i].radius,
                    fp.circles[i].cy - fp.circles[i].radius>>,
                  <<fp.circles[i].cx + fp.circles[i].radius,
                    fp.circles[i].cy + fp.circles[i].radius>>>>])
            \o Flatten([i \in DOMAIN fp.polygons |-> fp.polygons[i].points])
    IN  IF all_points = <<>> THEN fp
        ELSE [fp EXCEPT !.bounds =
                Some(<<Min(PointsX(all_points)), Min(PointsY(all_points)),
                       Max(PointsX(all_points)), Max(PointsY(all_points))>>)]

\* EasyEdaFootprint.has_courtyard
has_courtyard(fp) ==
    \E i \in DOMAIN fp.lines : fp.lines[i].layer \in {"F.CrtYd", "B.CrtYd"}

\* FootprintConverter._generate_courtyard, with utils.geometry.expand_bbox
generate_courtyard(fp) ==
    IF fp.bounds = None THEN fp
    ELSE
        LET min_x == fp.bounds[1][1] - CourtyardMargin
            min_y == fp.bounds[1][2] - CourtyardMargin
            max_x == fp.bounds[1][3] + CourtyardMargin
            max_y == fp.bounds[1][4] + CourtyardMargin
        IN  [fp EXCEPT !.lines = @ \o
                <<FootprintLine(min_x, min_y, max_x, min_y, "F.CrtYd", CourtyardStroke),
                  FootprintLine(max_x, min_y, max_x, max_y, "F.CrtYd", CourtyardStroke),
                  FootprintLine(max_x, max_y, min_x, max_y, "F.CrtYd", CourtyardStroke),
                  FootprintLine(min_x, max_y, min_x, min_y, "F.CrtYd", CourtyardStroke)>>]

\* FootprintConverter.convert: None, or Some(footprint)
footprint_convert(footprint_data, component_name) ==
    IF footprint_data.kind \in {"badjson", "list"} THEN None
    ELSE
        LET parsed == parse_footprint_data(NewFootprint(component_name), footprint_data)
            bounded == calculate_bounds(calculate_bounds_and_center(parsed))
        IN  Some(IF has_courtyard(bounded) THEN bounded ELSE generate_courtyard(bounded))

(***************************************************************************)
(* The symbol converter.  EasyEdaSymbol.prefix, which depends only on the   *)
(* description and the category, is left out.                               *)
(***************************************************************************)
SymbolStroke == 254  \* 0.254 mm
PinLength == 2540    \* 2.54 mm

\* utils.geometry.normalize_angle
normalize_angle(angle) == angle % 360

\* EasyEdaSymbol(name=component_name)
NewSymbol(name) ==
    [name |-> name, pins |-> <<>>, rectangles |-> <<>>, polylines |-> <<>>,
     circles |-> <<>>, arcs |-> <<>>, texts |-> <<>>, offset_x |-> 0, offset_y |-> 0]

LayoutKeywords == {"start", "end", "middle", "show", "hide", "0", "1"}
CommentTokens == {"#hidden", "^^note"}

\* the test of _parse_pin on one field of the window
IsPinName(part) ==
    /\ part # ""
    /\ part \notin CommentTokens
    /\ part \notin DOMAIN NumValue
    /\ part \notin LayoutKeywords

\* the pin-name scan of _parse_pin over fields 10..19
pin_name(parts) ==
    LET window == {i \in 10..(Min({Len(parts), 20}) - 1) : IsPinName(Field(parts, i))}
    IN  IF window = {} THEN "" ELSE Field(parts, Min(window))

\* float("nan"), which parse_float returns for the text nan and which
\* normalize_angle returns unchanged: no angle in 0..359
NaN == -1

\* normalize_angle(parse_float(text) + 180) of _parse_pin
pin_rotation(text) ==
    IF text = "nan" THEN NaN ELSE normalize_angle(parse_float(text) + 180)

\* a _parse_pin that keeps the sign of the source y
ParsePinUnflipped(sym, parts) ==
    IF Len(parts) < 7 THEN sym
    ELSE [sym EXCEPT !.pins = Append(@,
            [number |-> Field(parts, 3),
             name |-> pin_name(parts),
             x |-> parse_float(Field(parts, 4)) * SCALE,
             y |-> parse_float(Field(parts, 5)) * SCALE,
             length |-> PinLength,
             rotation |-> pin_rotation(Field(parts, 6)),
             pin_type |-> "unspecified"])]

\* SymbolConverter._parse_pin
parse_pin(sym, parts) ==
    IF Len(parts) < 7 THEN sym
    ELSE [sym EXCEPT !.pins = Append(@,
            [number |-> Field(parts, 3),
             name |-> pin_name(parts),
             x |-> parse_float(Field(parts, 4)) * SCALE,
             y |-> -(parse_float(Field(parts, 5)) * SCALE),
             length |-> PinLength,
             rotation |-> pin_rotation(Field(parts, 6)),
             pin_type |-> "unspecified"])]

\* SymbolConverter._parse_rectangle
parse_rectangle(sym, parts) ==
    IF Len(parts) < 7 THEN sym
    ELSE
        LET y == parse_float(Field(parts, 2)) * SCALE
            height == parse_float(Field(parts, 6)) * SCALE
            stroke_width == IF Len(parts) > 8 THEN parse_float(Field(parts, 8)) * SCALE
                            ELSE SymbolStroke
        IN  [sym EXCEPT !.rectangles = Append(@,
                [x |-> parse_float(Field(parts, 1)) * SCALE,
                 y |-> -y - height,
                 width |-> parse_float(Field(parts, 5)) * SCALE,
                 height |-> height,
                 stroke_width |-> MaxOf(stroke_width, MinStroke)])]

\* SymbolConverter._parse_point_list: the scaled, Y-flipped points
symbol_parse_point_list(points_str) ==
    LET values == SplitValues(points_str)
        n == Len(values) \div 2           \* len(range(0, len(values) - 1, 2))
    IN  [i \in 1..n |-> <<parse_float(values[2 * i - 1]) * SCALE,
                          -(parse_float(values[2 * i]) * SCALE)>>]

\* SymbolConverter._parse_polyline
parse_polyline(sym, parts) ==
    IF Len(parts) < 2 THEN sym
    ELSE
        LET points == symbol_parse_point_list(Field(parts, 1))
            stroke_width == IF Len(parts) > 3 THEN parse_float(Field(parts, 3)) * SCALE
                            ELSE SymbolStroke
        IN  IF points = <<>> THEN sym
            ELSE [sym EXCEPT !.polylines = Append(@,
                    [points |-> points,
                     stroke_width |-> MaxOf(stroke_width, MinStroke),
                     fill |-> "none"])]

\* SymbolConverter._parse_line
parse_line(sym, parts) ==
    IF Len(parts) < 5 THEN sym
    ELSE [sym EXCEPT !.polylines = Append(@,
            [points |-> <<<<parse_float(Field(parts, 1)) * SCALE,
                            -(parse_float(Field(parts, 2)) * SCALE)>>,
                          <<parse_float(Field(parts, 3)) * SCALE,
                            -(parse_float(Field(parts, 4)) * SCALE)>>>>,
             stroke_width |-> SymbolStroke,
             fill |-> "none"])]

\* SymbolConverter._parse_circle
symbol_parse_circle(sym, parts) ==
    IF Len(parts) < 4 THEN sym
    ELSE [sym EXCEPT !.circles = Append(@,
            [cx |-> parse_float(Field(parts, 1)) * SCALE,
             cy |-> -(parse_float(Field(parts, 2)) * SCALE),
             radius |-> parse_float(Field(parts, 3)) * SCALE,
             stroke_width |-> SymbolStroke])]

\* SymbolConverter._parse_arc
symbol_parse_arc(sym, parts) ==
    IF Len(parts) < 7 THEN sym
    ELSE [sym EXCEPT !.arcs = Append(@,
            [cx |-> parse_float(Field(parts, 1)) * SCALE,
             cy |-> -(parse_float(Field(parts, 2)) * SCALE),
             radius |-> (parse_float(Field(parts, 3)) * SCALE
                         + parse_float(Field(parts, 4)) * SCALE) \div 2,
             start_angle |-> -parse_float(Field(parts, 6)),
             end_angle |-> -parse_float(Field(parts, 5)),
             stroke_width |-> SymbolStroke])]

\* SymbolConverter._parse_text
symbol_parse_text(sym, parts) ==
    IF Len(parts) < 7 THEN sym
    ELSE
        LET text_content == IF Len(parts) > 8 THEN Field(parts, 8) ELSE ""
        IN  IF text_content # "" /\ text_content # "#hidden"   \* not startswith("#")
            THEN [sym EXCEPT !.texts = Append(@,
                    [text |-> text_content,
                     x |-> parse_float(Field(parts, 2)) * SCALE,
                     y |-> -(parse_float(Field(parts, 3)) * SCALE),
                     font_size |-> MaxOf(parse_float(Field(parts, 6)) * SCALE, MinFont),
                     rotation |-> parse_float(Field(parts, 4))])]
            ELSE sym

\* SymbolConverter._parse_polygon
parse_polygon(sym, parts) ==
    LET parsed == parse_polyline(sym, parts)
    IN  IF parsed.polylines # <<>>
        THEN [parsed EXCEPT !.polylines[Len(parsed.polylines)].fill = "outline"]
        ELSE parsed

\* SymbolConverter._parse_shape
parse_shape(sym, shape) ==
    IF shape.parts = <<"">> THEN sym
    ELSE
        LET shape_type == UpperWord(Field(shape.parts, 0))
        IN  CASE shape_type = "P" -> parse_pin(sym, shape.parts)
              [] shape_type = "R" -> parse_rectangle(sym, shape.parts)
              [] shape_type = "PL" -> parse_polyline(sym, shape.parts)
              [] shape_type = "L" -> parse_line(sym, shape.parts)
              [] shape_type \in {"C", "E"} -> symbol_parse_circle(sym, shape.parts)
              [] shape_type = "A" -> symbol_parse_arc(sym, shape.parts)
              [] shape_type = "T" -> symbol_parse_text(sym, shape.parts)
              [] shape_type = "PG" -> parse_polygon(sym, shape.parts)
              [] OTHER -> sym

\* the loop of SymbolConverter.convert over the shapes
RECURSIVE SymbolParseShapes(_, _)
SymbolParseShapes(sym, shapes) ==
    IF shapes = <<>> THEN sym
    ELSE SymbolParseShapes(IF Head(shapes).isstr THEN parse_shape(sym, Head(shapes))
                           ELSE sym,
                           Tail(shapes))

\* SymbolConverter._calculate_offset
calculate_offset(sym) ==
    LET all_points ==
            [i \in DOMAIN sym.pins |-> <<sym.pins[i].x, sym.pins[i].y>>]
            \o Flatten([i \in DOMAIN sym.rectangles |->
                <<<<sym.rectangles[i].x, sym.rectangles[i].y>>,
                  <<sym.rectangles[i].x + sym.rectangles[i].width,
                    sym.rectangles[i].y + sym.rectangles[i].height>>>>])
            \o Flatten([i \in DOMAIN sym.polylines |-> sym.polylines[i].points])
            \o Flatten([i \in DOMAIN sym.circles |->
                <<<<sym.circles[i].cx - sym.circles[i].radius,
                    sym.circles[i].cy - sym.circles[i].radius>>,
                  <<sym.circles[i].cx + sym.circles[i].radius,
                    sym.circles[i].cy + sym.circles[i].radius>>>>])
    IN  IF all_points = <<>> THEN sym
        ELSE [sym EXCEPT
                !.offset_x = -((Min(PointsX(all_points)) + Max(PointsX(all_points))) \div 2),
                !.offset_y = -((Min(PointsY(all_points)) + Max(PointsY(all_points))) \div 2)]

\* SymbolConverter.convert: None, or Some(symbol)
symbol_convert(symbol_data, component_name) ==
    IF symbol_data.kind \in {"badjson", "list"} THEN None
    ELSE Some(calculate_offset(
            SymbolParseShapes(NewSymbol(component_name), symbol_data.shape)))

(***************************************************************************)
(* Conversion of one payload.  The payload is drawn at the start, either    *)
(* converter is applied to it once.                                         *)
(***************************************************************************)
MaxShapes == 2

PadA == Shape(<<"PAD", "RECT", "10", "10", "4", "2", "1", "", "A", "0", "", "90">>)
PadB == Shape(<<"pad", "ELLIPSE", "30", "20", "4", "4", "11", "", "B", "1">>)
PadShort == Shape(<<"PAD", "RECT", "10">>)
PadText == Shape(<<"PAD", "OVAL", "abc", "10", "4", "2", "2", "", "N">>)
PadFlat == Shape(<<"PAD", "RECT", "10", "10", "0", "abc", "3", "", "Z", "-10">>)
ViaA == Shape(<<"VIA", "20", "20", "4", "2">>)
ViaSmall == Shape(<<"VIA", "20", "20", "4", "0">>)
TrackA == Shape(<<"TRACK", "1", "3", "", "0 0 10 0 10 10">>)
TrackShort == Shape(<<"TRACK", "1", "3">>)
TrackCourtyard == Shape(<<"TRACK", "1", "21", "", "0 0 10 0 10 10">>)
CircleA == Shape(<<"CIRCLE", "10", "10", "4", "0", "3">>)
ArcA == Shape(<<"ARC", "1", "3", "", "M 0 0 A 10 10 0 0 1 20 0">>)
RectA == Shape(<<"rect", "0", "0", "10", "20", "13">>)
SolidA == Shape(<<"SOLIDREGION", "3", "", "M 0 0 L 10 0 L 10 10 Z">>)
TextA == Shape(<<"TEXT", "REF", "0", "10", "1", "90", "", "3", "", "1", "R1">>)
TextUser == Shape(<<"TEXT", "N", "0", "10", "1", "90", "", "3", "", "1", "note">>)
TextValue == Shape(<<"TEXT", "VAL", "0", "20", "1", "0", "", "13", "", "4", "10k">>)
HoleA == Shape(<<"HOLE", "10", "10", "2">>)
SvgNode == Shape(<<"SVGNODE", "<g/>">>)
EmptyShape == Shape(<<"">>)

PinA == Shape(<<"P", "show", "0", "1", "10", "20", "0", "gge1", "", "", "", "VCC">>)
PinB == Shape(<<"p", "show", "0", "2", "-10", "20", "90">>)
PinShort == Shape(<<"P", "show", "0", "3">>)
PinC == Shape(<<"P", "show", "0", "3", "2", "-10", "90">>)
PinD == Shape(<<"P", "show", "0", "5", "4", "1", "270">>)
PinNaN == Shape(<<"P", "show", "0", "4", "10", "20", "nan">>)
RectangleA == Shape(<<"R", "0", "0", "", "", "20", "10">>)
PolylineA == Shape(<<"PL", "0 0 10 0 10 10", "", "1">>)
PolygonA == Shape(<<"PG", "0 0 10 0">>)
PolygonShort == Shape(<<"PG">>)
LineA == Shape(<<"L", "0", "0", "10", "10">>)
SymCircleA == Shape(<<"C", "10", "10", "4">>)
SymArcA == Shape(<<"A", "0", "0", "10", "10", "0", "90">>)
SymTextA == Shape(<<"T", "L", "0", "10", "90", "", "1", "", "note">>)

FootprintShapes ==
    {PadA, PadB, PadShort, PadText, PadFlat, ViaA, ViaSmall, TrackA, TrackShort,
     TrackCourtyard, CircleA,
     ArcA, RectA, SolidA, TextA, TextUser, HoleA, SvgNode, EmptyShape, DictShape}
SymbolShapes ==
    {PinA, PinB, PinD, PinNaN, PinShort, RectangleA, PolylineA, PolygonA, PolygonShort,
     LineA, SymCircleA, SymArcA, SymTextA}
NestedShapes == {PadB, PadShort}

SeqsUpTo(S, n) == UNION {[1..k -> S] : k \in 0..n}

Payloads ==
    {Payload(kind, shape, None) :
        kind \in {"dict", "json"},
        shape \in SeqsUpTo(FootprintShapes, MaxShapes) \cup SeqsUpTo(SymbolShapes, MaxShapes)}
    \cup {Payload("dict", shape, Some(Payload(kind, <<inner>>, None))) :
            shape \in SeqsUpTo({PadA, PadShort, PadText}, MaxShapes),
            kind \in {"dict", "json", "badjson"},
            inner \in NestedShapes}
    \cup {Payload("badjson", <<>>, None), Payload("list", <<>>, None)}

Converted(by, ret) == [by |-> by, ret |-> ret]

StoreIdle ==
    /\ file = AbsentFile
    /\ overrides = load_overrides(file)
    /\ pinned = NoPins
    /\ failures = 0
    /\ last = Call("init", FALSE, "none")

InitParse ==
    /\ StoreIdle
    /\ LibIdle
    /\ ConcIdle
    /\ WriteIdle
    /\ GuiIdle
    /\ parseIn \in {Some(p) : p \in Payloads}
    /\ parseOut = None

\* FootprintConverter.convert(footprint_data, component_name)
ConvertFootprint ==
    /\ parseIn # None
    /\ parseOut = None
    /\ parseOut' = Some(Converted("footprint", footprint_convert(parseIn[1], "C1")))
    /\ UNCHANGED <<parseIn, storeVars, libVars, concVars, writeVars, guiVars, last>>

\* SymbolConverter.convert(symbol_data, component_name)
ConvertSymbol ==
    /\ parseIn # None
    /\ parseOut = None
    /\ parseOut' = Some(Converted("symbol", symbol_convert(parseIn[1], "C1")))
    /\ UNCHANGED <<parseIn, storeVars, libVars, concVars, writeVars, guiVars, last>>

NextParse ==
    \/ ConvertFootprint
    \/ ConvertSymbol

SpecParse == InitParse /\ [][NextParse]_vars

(***************************************************************************)
(* Claims about the parsers, checked under SpecParse.                       *)
(***************************************************************************)
\* the fewest fields each command needs
MinFields(tag) ==
    CASE tag = "PAD" -> 9 [] tag = "TRACK" -> 5 [] tag = "CIRCLE" -> 6
      [] tag = "ARC" -> 5 [] tag = "RECT" -> 6 [] tag = "SOLIDREGION" -> 4
      [] tag = "TEXT" -> 11 [] tag = "HOLE" -> 4 [] tag = "VIA" -> 5
      [] tag \in {"P", "R", "A", "T"} -> 7 [] tag \in {"PL", "PG"} -> 2
      [] tag = "L" -> 5 [] tag \in {"C", "E"} -> 4
      [] OTHER -> 1

Tag(shape) == UpperWord(shape.parts[1])
Malformed(shape) == shape.isstr /\ Len(shape.parts) < MinFields(Tag(shape))
WellFormed(shape) == ~Malformed(shape)

\* every shape command of the payload in the order the parser meets them
AllShapes(p) ==
    IF p.nested # None /\ p.nested[1].kind \in {"dict", "json"}
    THEN p.shape \o p.nested[1].shape
    ELSE p.shape

\* the payload without its malformed commands
WithoutMalformed(p) ==
    [p EXCEPT !.shape = SelectSeq(@, WellFormed),
              !.nested = IF @ = None THEN None
                         ELSE Some([@[1] EXCEPT !.shape = SelectSeq(@, WellFormed)])]

PadProducing(shape) ==
    /\ WellFormed(shape)
    /\ \/ Tag(shape) = "PAD"
       \/ Tag(shape) = "VIA" /\ parse_float(shape.parts[5]) * SCALE > MinViaDrill
PinProducing(shape) == WellFormed(shape) /\ Tag(shape) = "P"

\* the pad number (pin number) each producing command carries, in input order
ExpectedPadNumbers(p) ==
    LET cmds == SelectSeq(AllShapes(p), LAMBDA c : c.isstr /\ PadProducing(c))
    IN  [i \in DOMAIN cmds |-> IF Tag(cmds[i]) = "PAD" THEN cmds[i].parts[9] ELSE ""]
ExpectedPinNumbers(p) ==
    LET cmds == SelectSeq(p.shape, LAMBDA c : c.isstr /\ PinProducing(c))
    IN  [i \in DOMAIN cmds |-> cmds[i].parts[4]]

Numbers(items) == [i \in DOMAIN items |-> items[i].number]

FootprintCounts(fp) ==
    <<Len(fp.pads), Len(fp.lines), Len(fp.circles), Len(fp.arcs), Len(fp.polygons),
      Len(fp.texts), Len(fp.holes)>>
SymbolCounts(sym) ==
    <<Len(sym.pins), Len(sym.rectangles), Len(sym.polylines), Len(sym.circles),
      Len(sym.arcs), Len(sym.texts)>>

IsMapping(p) == p.kind \in {"dict", "json"}

NoFootprintGeometry(p) ==
    IsMapping(p) /\ FootprintCounts(parse_footprint_data(NewFootprint("C1"), p))
                        = <<0, 0, 0, 0, 0, 0, 0>>
NoSymbolGeometry(p) ==
    IsMapping(p) /\ SymbolCounts(SymbolParseShapes(NewSymbol("C1"), p.shape))
                        = <<0, 0, 0, 0, 0, 0>>

\* C8: a conversion whose payload produces no geometry at all returns no
\* result (None), not an empty Footprint or Symbol.
C8_NoGeometryGivesNone ==
    parseOut # None =>
        /\ (parseOut[1].by = "footprint" /\ NoFootprintGeometry(parseIn[1]))
               => parseOut[1].ret = None
        /\ (parseOut[1].by = "symbol" /\ NoSymbolGeometry(parseIn[1]))
               => parseOut[1].ret = None

\* ---- centring ------------------------------------------------------------
RECURSIVE SumX(_)
SumX(pads) == IF pads = <<>> THEN 0 ELSE Head(pads).x + SumX(Tail(pads))
RECURSIVE SumY(_)
SumY(pads) == IF pads = <<>> THEN 0 ELSE Head(pads).y + SumY(Tail(pads))

Abs(n) == IF n < 0 THEN -n ELSE n

\* the footprint a footprint conversion returned
ReturnedFootprint ==
    /\ parseOut # None
    /\ parseOut[1].by = "footprint"
    /\ parseOut[1].ret # None

\* the symbol a symbol conversion returned
ReturnedSymbol == parseOut # None /\ parseOut[1].by = "symbol" /\ parseOut[1].ret # None

\* C11: after converting a payload that yields at least one pad, the mean of
\* the pad centres (the unweighted centroid of the pad boxes) is (0,0),
\* within one micrometre per coordinate.
C11_PadCentroidAtOrigin ==
    ReturnedFootprint =>
        LET pads == parseOut[1].ret[1].pads
        IN  pads # <<>> =>
                /\ Abs(SumX(pads)) <= Len(pads)
                /\ Abs(SumY(pads)) <= Len(pads)

\* ---- courtyard -----------------------------------------------------------
\* the footprint as parsed from the input of the conversion, before centring
ParsedInput == parse_footprint_data(NewFootprint("C1"), parseIn[1])

\* four lines that run corner to corner around the box b grown by the margin
ClosedRectangleAround(ls, b) ==
    LET corners == {<<b[1] - CourtyardMargin, b[2] - CourtyardMargin>>,
                    <<b[3] + CourtyardMargin, b[2] - CourtyardMargin>>,
                    <<b[3] + CourtyardMargin, b[4] + CourtyardMargin>>,
                    <<b[1] - CourtyardMargin, b[4] + CourtyardMargin>>}
    IN  /\ Len(ls) = 4
        /\ \A k \in 1..4 : ls[k].layer = "F.CrtYd"
        /\ \A k \in 1..4 : <<ls[k].x2, ls[k].y2>> = <<ls[(k % 4) + 1].x1, ls[(k % 4) + 1].y1>>
        /\ {<<ls[k].x1, ls[k].y1>> : k \in 1..4} = corners

\* C12: a converted footprint whose parsed lines include none on a CrtYd
\* layer has exactly 4 added F.CrtYd lines forming a closed rectangle 0.25 mm
\* outside the computed bounds; one that has a CrtYd line has no line added.
C12_CourtyardSynthesis ==
    (ReturnedFootprint /\ ~NoFootprintGeometry(parseIn[1])) =>
        LET fp == parseOut[1].ret[1]
            n == Len(ParsedInput.lines)
        IN  IF has_courtyard(ParsedInput)
            THEN Len(fp.lines) = n
            ELSE /\ Len(fp.lines) = n + 4
                 /\ fp.bounds # None
                 /\ ClosedRectangleAround(SubSeq(fp.lines, n + 1, n + 4), fp.bounds[1])

\* ---- pads ----------------------------------------------------------------
\* the commands of the input that gave a pad, in the order of the pads
PadCommands == SelectSeq(AllShapes(parseIn[1]), LAMBDA c : c.isstr /\ PadProducing(c))

\* the hole radius _parse_pad reads: field 9 when the command has it
HoleRadius(parts) == IF Len(parts) > 9 THEN parse_float(Field(parts, 9)) * SCALE ELSE 0

\* C13: for every PAD command the parser accepts (at least 9 fields), the
\* parsed pad has width > 0 and height > 0, and is thru_hole exactly when the
\* parsed hole radius is > 0 (smd otherwise).
C13_PadSizePositiveAndType ==
    ReturnedFootprint =>
        LET pads == parseOut[1].ret[1].pads
        IN  /\ Len(pads) = Len(PadCommands)
            /\ \A k \in DOMAIN pads :
                    Tag(PadCommands[k]) = "PAD" =>
                        /\ pads[k].width > 0
                        /\ pads[k].height > 0
                        /\ pads[k].pad_type \in {"thru_hole", "smd"}
                        /\ pads[k].pad_type = "thru_hole"
                               <=> HoleRadius(PadCommands[k].parts) > 0

BackLayers == {"B.Cu", "B.SilkS", "B.Paste", "B.Mask", "B.Fab", "B.CrtYd"}

\* the layer the command of the k-th pad maps to (a VIA carries none)
MappedLayer(k) == get_kicad_layer(PadField(PadCommands[k].parts, 6))

\* C21: every thru_hole pad of a converted footprint carries the wildcard
\* layers *.Cu, *.Paste, *.Mask; every smd pad carries F.Cu, F.Paste, F.Mask
\* when its mapped layer is front-side and B.Cu, B.Paste, B.Mask when it is
\* back-side.
C21_PadLayerSets ==
    ReturnedFootprint =>
        LET pads == parseOut[1].ret[1].pads
        IN  \A k \in DOMAIN pads :
                /\ pads[k].pad_type = "thru_hole"
                        => pads[k].layers = <<"*.Cu", "*.Paste", "*.Mask">>
                /\ (pads[k].pad_type = "smd" /\ MappedLayer(k) \in FrontLayers)
                        => pads[k].layers = <<"F.Cu", "F.Paste", "F.Mask">>
                /\ (pads[k].pad_type = "smd" /\ MappedLayer(k) \in BackLayers)
                        => pads[k].layers = <<"B.Cu", "B.Paste", "B.Mask">>

\* ---- pin rotation --------------------------------------------------------
\* the source rotation of a P command
SourceRotation(cmd) == parse_float(Field(cmd.parts, 6))

\* C22: for every P command of at least 7 fields the parsed pin's rotation
\* lies in [0, 360) and is congruent to the source rotation + 180 modulo 360
\* (normalize_angle returns a value in [0, 360) for every angle).
C22_PinRotationNormalized ==
    ReturnedSymbol =>
        LET cmds == SelectSeq(parseIn[1].shape, LAMBDA c : c.isstr /\ PinProducing(c))
            pins == parseOut[1].ret[1].pins
        IN  /\ Len(pins) = Len(cmds)
            /\ \A k \in DOMAIN cmds :
                    /\ pins[k].rotation \in 0..359
                    /\ (pins[k].rotation - (SourceRotation(cmds[k]) + 180)) % 360 = 0

(***************************************************************************)
(* The placement heuristic on its own: calculate_transform on a store that  *)
(* holds no override, for footprints of up to MaxPads pads.  parseIn holds  *)
(* the footprint, parseOut what the call returned and the pad _find_pin1    *)
(* chose for it.                                                            *)
(***************************************************************************)
MaxPads == 3

HeurNumbers == {"A", "2", "10", "B"}
HeurPositions ==
    {<<-2000, -1000>>, <<2000, -1000>>, <<2000, 1000>>, <<-2000, 1000>>,
     <<800, -400>>, <<-1960, 1000>>}
HeurPads == {Pad(n, p[1], p[2]) : n \in HeurNumbers, p \in HeurPositions}
HeurFootprints == {[pads |-> pads] : pads \in SeqsUpTo(HeurPads, MaxPads)}

InitHeur ==
    /\ StoreIdle
    /\ LibIdle
    /\ ConcIdle
    /\ WriteIdle
    /\ GuiIdle
    /\ parseIn \in {Some(fp) : fp \in HeurFootprints}
    /\ parseOut = None

\* Model3DConfig.calculate_transform(lcsc_id, footprint), no override stored
HeuristicTransform ==
    /\ parseIn # None
    /\ parseOut = None
    /\ \E r \in {calculate_transform(overrides, "c1", parseIn[1])} :
           parseOut' = Some([by |-> "calculate_transform", raised |-> r.raised,
                             ret |-> r.val, pin1 |-> find_pin1(parseIn[1])])
    /\ UNCHANGED <<parseIn, storeVars, libVars, concVars, writeVars, guiVars, last>>

NextHeur == HeuristicTransform

SpecHeur == InitHeur /\ [][NextHeur]_vars

\* the call has returned a transform
Placed == parseOut # None /\ ~parseOut[1].raised /\ parseOut[1].ret # None

Pin1Offset ==
    LET pads == parseIn[1].pads
        xs == {pads[i].x : i \in DOMAIN pads}
        ys == {pads[i].y : i \in DOMAIN pads}
    IN  <<2 * parseOut[1].pin1[1].x - (Min(xs) + Max(xs)),
          2 * parseOut[1].pin1[1].y - (Min(ys) + Max(ys)),
          Max(xs) - Min(xs), Max(ys) - Min(ys)>>

\* the distance of pin 1 from the centroid exceeds 30% of the half-width in x
\* and 30% of the half-height in y:  |rel| > 0.3 * extent / 2
BeyondBand ==
    /\ 10 * Abs(Pin1Offset[1]) > 3 * Pin1Offset[3]
    /\ 10 * Abs(Pin1Offset[2]) > 3 * Pin1Offset[4]

TopLeft == Pin1Offset[1] < 0 /\ Pin1Offset[2] < 0
TopRight == Pin1Offset[1] > 0 /\ Pin1Offset[2] < 0
BottomRight == Pin1Offset[1] > 0 /\ Pin1Offset[2] > 0
BottomLeft == Pin1Offset[1] < 0 /\ Pin1Offset[2] > 0

\* C15: pin 1 is assigned to a quadrant exactly when its x distance from the
\* centroid exceeds 30% of the half-width and its y distance 30% of the
\* half-height; inside the band on either axis the Z rotation is 0.  (The
\* top-left quadrant gives 0 as well, so the rotation tells the other three.)
C15_QuadrantBand ==
    (Placed /\ parseIn[1].pads # <<>>) =>
        LET rotation_z == parseOut[1].ret[1].rotation[3]
        IN  /\ ~BeyondBand => rotation_z = 0
            /\ (BeyondBand /\ ~TopLeft) => rotation_z # 0

\* C16: with no override stored, pin 1 in the top-left quadrant gives Z
\* rotation 0, top-right 90, bottom-right 180, bottom-left 270; the X and Y
\* rotations are always 0.
C16_QuadrantRotation ==
    Placed =>
        LET rotation == parseOut[1].ret[1].rotation
        IN  /\ rotation[1] = 0
            /\ rotation[2] = 0
            /\ (parseIn[1].pads # <<>> /\ BeyondBand) =>
                  /\ TopLeft => rotation[3] = 0
                  /\ TopRight => rotation[3] = 90
                  /\ BottomRight => rotation[3] = 180
                  /\ BottomLeft => rotation[3] = 270

StrokeWidths(items) == {items[k].stroke_width : k \in DOMAIN items}

\* the font sizes of a sequence of texts
FontSizes(texts) == {texts[k].font_size : k \in DOMAIN texts}

\* every stroke and font of a converted symbol is at least the minimum
SymbolClamped(sym) ==
    /\ \A w \in StrokeWidths(sym.rectangles) \cup StrokeWidths(sym.polylines)
               \cup StrokeWidths(sym.circles) \cup StrokeWidths(sym.arcs) : w >= MinStroke
    /\ \A f \in FontSizes(sym.texts) : f >= MinFont

\* every stroke and font of a footprint, but for its lines, is at least the minimum
FootprintClampedButLines(fp) ==
    /\ \A w \in StrokeWidths(fp.circles) \cup StrokeWidths(fp.arcs)
               \cup StrokeWidths(fp.polygons) : w >= MinStroke
    /\ \A f \in FontSizes(fp.texts) : f >= MinFont

round_to_grid(value) ==
    LET q == value \div 10
        r == value % 10
    IN  IF r > 5 THEN q + 1
        ELSE IF r < 5 THEN q
        ELSE IF q % 2 = 0 THEN q ELSE q + 1

\* SymbolWriter._fmt
Fmt(value) == round_to_grid(value)

\* SymbolWriter._line
Line(ind, content) == <<ind, content>>

\* SymbolWriter._sanitize_name on the names of the model
sanitize_name(name) ==
    CASE name = "" -> "Component"
      [] name = "1N4148" -> "_1N4148"
      [] OTHER -> name

\* SymbolWriter._get_fill_type; a primitive the converter gave no fill has "none"
get_fill_type(prim) ==
    IF "fill" \in DOMAIN prim /\ prim.fill \in {"outline", "background"}
    THEN prim.fill ELSE "none"

\* one property block of _write_properties
Property(ind, name, value, at, hide) ==
    <<Line(ind, <<"property", name, value>>), Line(ind + 1, <<"at", at>>),
      Line(ind + 1, <<"effects", hide>>), Line(ind, <<")">>)>>

\* SymbolWriter._write_properties; the prefix is "U" (guess_reference_prefix
\* without description and category), the description is empty
write_properties(ind, symbol, lcsc_id, footprint_lib, footprint_name, datasheet_url, mpn) ==
    Property(ind, "Reference", "U", "0 2.54 0", FALSE)
    \o Property(ind, "Value", symbol.name, "0 -2.54 0", FALSE)
    \o Property(ind, "Footprint", <<footprint_lib, footprint_name>>, "0 -5.08 0", TRUE)
    \o Property(ind, "Datasheet", datasheet_url, "0 -7.62 0", TRUE)
    \o Property(ind, "Description", "", "0 -10.16 0", TRUE)
    \o Property(ind, "LCSC", lcsc_id, "0 -12.7 0", TRUE)
    \o (IF mpn # "" THEN Property(ind, "MPN", mpn, "0 -15.24 0", TRUE) ELSE <<>>)
    \o <<Line(ind, <<"pin_names">>), Line(ind, <<"exclude_from_sim">>),
          Line(ind, <<"in_bom">>), Line(ind, <<"on_board">>)>>

\* SymbolWriter._write_rectangles
write_rectangles(ind, symbol) ==
    Flatten([k \in DOMAIN symbol.rectangles |->
        LET rect == symbol.rectangles[k]
            x == rect.x + symbol.offset_x
            y == rect.y + symbol.offset_y
        IN  <<Line(ind, <<"rectangle">>),
              Line(ind + 1, <<"start", Fmt(x), Fmt(y)>>),
              Line(ind + 1, <<"end", Fmt(x + rect.width), Fmt(y + rect.height)>>),
              Line(ind + 1, <<"stroke", Fmt(rect.stroke_width)>>),
              Line(ind + 1, <<"fill", get_fill_type(rect)>>),
              Line(ind, <<")">>)>>])

\* SymbolWriter._write_polylines
write_polylines(ind, symbol) ==
    Flatten([k \in DOMAIN symbol.polylines |->
        LET poly == symbol.polylines[k]
        IN  IF Len(poly.points) < 2 THEN <<>>
            ELSE <<Line(ind, <<"polyline">>), Line(ind + 1, <<"pts">>)>>
                 \o [n \in DOMAIN poly.points |->
                        Line(ind + 2, <<"xy", Fmt(poly.points[n][1] + symbol.offset_x),
                                        Fmt(poly.points[n][2] + symbol.offset_y)>>)]
                 \o <<Line(ind + 1, <<")">>),
                       Line(ind + 1, <<"stroke", Fmt(poly.stroke_width)>>),
                       Line(ind + 1, <<"fill", get_fill_type(poly)>>),
                       Line(ind, <<")">>)>>])

\* SymbolWriter._write_circles
write_circles(ind, symbol) ==
    Flatten([k \in DOMAIN symbol.circles |->
        LET circle == symbol.circles[k]
        IN  <<Line(ind, <<"circle">>),
              Line(ind + 1, <<"center", Fmt(circle.cx + symbol.offset_x),
                              Fmt(circle.cy + symbol.offset_y)>>),
              Line(ind + 1, <<"radius", Fmt(circle.radius)>>),
              Line(ind + 1, <<"stroke", Fmt(circle.stroke_width)>>),
              Line(ind + 1, <<"fill", get_fill_type(circle)>>),
              Line(ind, <<")">>)>>])

\* SymbolWriter._write_arcs
write_arcs(ind, symbol) ==
    Flatten([k \in DOMAIN symbol.arcs |->
        LET arc == symbol.arcs[k]
            cx == arc.cx + symbol.offset_x
            cy == arc.cy + symbol.offset_y
        IN  <<Line(ind, <<"arc">>),
              Line(ind + 1, <<"start", cx, cy, arc.radius, arc.start_angle>>),
              Line(ind + 1, <<"mid", cx, cy, arc.radius, arc.start_angle + arc.end_angle>>),
              Line(ind + 1, <<"end", cx, cy, arc.radius, arc.end_angle>>),
              Line(ind + 1, <<"stroke", Fmt(arc.stroke_width)>>),
              Line(ind + 1, <<"fill", "none">>),
              Line(ind, <<")">>)>>])

\* the lines _write_pins gives for one pin
PinLines(ind, symbol, pin) ==
    <<Line(ind, <<"pin", pin.pin_type, "line">>),
      Line(ind + 1, <<"at", Fmt(pin.x + symbol.offset_x), Fmt(pin.y + symbol.offset_y),
                      pin.rotation>>),
      Line(ind + 1, <<"length", Fmt(pin.length)>>),
      Line(ind + 1, <<"name", pin.name>>), Line(ind + 2, <<"effects", FALSE>>),
      Line(ind + 1, <<")">>),
      Line(ind + 1, <<"number", pin.number>>), Line(ind + 2, <<"effects", FALSE>>),
      Line(ind + 1, <<")">>),
      Line(ind, <<")">>)>>

\* SymbolWriter._write_pins: int(pin.rotation) raises on nan, after the
\* "(pin" line has raised the indentation by one
write_pins(ind, symbol) ==
    IF \E k \in DOMAIN symbol.pins : symbol.pins[k].rotation = NaN
    THEN [raised |-> TRUE, lines |-> <<>>, indent |-> ind + 1]
    ELSE [raised |-> FALSE,
          lines |-> Flatten([k \in DOMAIN symbol.pins |-> PinLines(ind, symbol, symbol.pins[k])]),
          indent |-> ind]

\* the arguments of one write_symbol call; payload is what the symbol was
\* converted from
Job(payload, symbol, lcsc_id, footprint_lib, mpn) ==
    [payload |-> payload, symbol |-> symbol, lcsc_id |-> lcsc_id,
     footprint_lib |-> footprint_lib, footprint_name |-> None,
     datasheet_url |-> "", mpn |-> mpn]

\* the body of write_symbol from the indentation it starts at
WriteSymbolFrom(ind, job) ==
    LET symbol_name == sanitize_name(IF job.symbol.name # "" THEN job.symbol.name
                                     ELSE job.lcsc_id)
        footprint_name == IF job.footprint_name # None THEN job.footprint_name[1]
                          ELSE symbol_name
        pins == write_pins(ind + 2, job.symbol)
    IN  IF pins.raised THEN [raised |-> TRUE, text |-> <<>>, indent |-> pins.indent]
        ELSE [raised |-> FALSE,
              text |-> <<Line(ind, <<"symbol", symbol_name>>)>>
                       \o write_properties(ind + 1, job.symbol, job.lcsc_id, job.footprint_lib,
                                           footprint_name, job.datasheet_url, job.mpn)
                       \o <<Line(ind + 1, <<"symbol", symbol_name, "_1_1">>)>>
                       \o write_rectangles(ind + 2, job.symbol)
                       \o write_polylines(ind + 2, job.symbol)
                       \o write_circles(ind + 2, job.symbol)
                       \o write_arcs(ind + 2, job.symbol)
                       \o pins.lines
                       \o <<Line(ind + 1, <<")">>), Line(ind, <<")">>)>>,
              indent |-> ind]

\* a write_symbol that goes on from the indentation the writer was left at
WriteSymbolNoReset(ind, job) == WriteSymbolFrom(ind, job)

\* SymbolWriter.write_symbol on a writer whose _indent is ind: self._indent = 0
\* comes first
write_symbol(ind, job) == WriteSymbolFrom(0, job)

(***************************************************************************)
(* Serialization of symbols.  One SymbolWriter serves every write_symbol    *)
(* call (LibraryManager keeps one in self.symbol_writer); written is the    *)
(* history of the calls, indent the writer's _indent between them.          *)
(***************************************************************************)
MaxWrites == 3

WritePayloads ==
    {Payload("dict", shape, None) :
        shape \in {<<>>, <<PinA, RectangleA>>, <<PinC, PolylineA>>,
                   <<PinA, PinD, SymCircleA, SymArcA>>, <<PinNaN>>, <<PinC, PinNaN>>}}

Jobs ==
    {Job(p, symbol_convert(p, "C1")[1], "C1", "lcsc_grabber", "") : p \in WritePayloads}
    \cup {Job(Payload("dict", <<PinA, RectangleA>>, None),
               symbol_convert(Payload("dict", <<PinA, RectangleA>>, None), "")[1],
               "C2", "Resistors", "M")}

\* one finished write_symbol call
Written(job, raised, text) == [job |-> job, raised |-> raised, text |-> text]

InitWrite ==
    /\ StoreIdle
    /\ LibIdle
    /\ ConcIdle
    /\ WriteIdle
    /\ GuiIdle
    /\ parseIn = None
    /\ parseOut = None

\* SymbolWriter.write_symbol(symbol, lcsc_id, footprint_lib, ..., mpn)
WriteSymbol ==
    /\ Len(written) < MaxWrites
    /\ \E job \in Jobs :
         \E r \in {write_symbol(indent, job)} :
            /\ written' = Append(written, Written(job, r.raised, r.text))
            /\ indent' = r.indent
    /\ UNCHANGED <<parseIn, parseOut, storeVars, libVars, concVars, guiVars, last>>

\* SymbolWriter(): the following calls go to a fresh writer
NewWriter ==
    /\ indent' = 0
    /\ UNCHANGED <<written, parseIn, parseOut, storeVars, libVars, concVars, guiVars, last>>

NextWrite == WriteSymbol \/ NewWriter

SpecWrite == InitWrite /\ [][NextWrite]_vars

\* the P commands of a payload that give a pin, in input order
PinCommands(p) == SelectSeq(p.shape, LAMBDA c : c.isstr /\ PinProducing(c))

\* the "(at x y rotation)" lines of the pins of a text, in order
PinAtLines(text) == SelectSeq(text, LAMBDA l : l[2][1] = "at" /\ Len(l[2]) = 4)

\* the source y of a P command
SourceY(cmd) == parse_float(Field(cmd.parts, 5))

\* C18: the Y flip is applied once.  The k-th P command of a payload, with
\* source y = v, gives the k-th pin of the symbol with y = -(v * 0.254 mm);
\* when the symbol is serialized the k-th pin line carries that y moved by
\* the symbol's offset and formatted, with no further change of sign.
C18_PinYFlippedOnce ==
    \A n \in DOMAIN written :
        LET job == written[n].job
            cmds == PinCommands(job.payload)
            pins == job.symbol.pins
            ats == PinAtLines(written[n].text)
        IN  /\ Len(pins) = Len(cmds)
            /\ \A k \in DOMAIN cmds : pins[k].y = -(SourceY(cmds[k]) * SCALE)
            /\ ~written[n].raised =>
                  /\ Len(ats) = Len(cmds)
                  /\ \A k \in DOMAIN cmds :
                        ats[k][2][3] = Fmt(-(SourceY(cmds[k]) * SCALE) + job.symbol.offset_y)

\* a serialized symbol with two pins of different, nonzero source y
C18_Witness ==
    \E n \in DOMAIN written :
        LET cmds == PinCommands(written[n].job.payload)
        IN  /\ ~written[n].raised
            /\ Len(cmds) = 2
            /\ SourceY(cmds[1]) = 20
            /\ SourceY(cmds[2]) = 1
            /\ PinAtLines(written[n].text)[2][2][3] # PinAtLines(written[n].text)[1][2][3]

\* C19: two write_symbol calls with the same symbol and the same arguments
\* give the same text (or both raise), on the same writer or a fresh one,
\* whatever was serialized in between.
C19_SerializerDeterministic ==
    \A m, n \in DOMAIN written :
        written[m].job = written[n].job =>
            /\ written[m].raised = written[n].raised
            /\ written[m].text = written[n].text

\* the same symbol serialized twice on one writer, around a call that raised
\* and left the writer's indentation raised
C19_Witness ==
    /\ Len(written) = 3
    /\ written[1].job = written[3].job
    /\ ~written[1].raised
    /\ written[1].text # <<>>
    /\ written[2].raised
    /\ indent = 0

(***************************************************************************)
(* The footprint writer (kicad/footprint_writer.py).  Lines are as for the  *)
(* symbol writer.  _fmt rounds to 0.001 mm, the unit of the model, so the   *)
(* numbers of a line are the lengths themselves; arc lines carry centre,    *)
(* radius and angle of the point.                                           *)
(***************************************************************************)
\* FootprintWriter._fmt: round_to_grid(value, 0.001) of a whole number of 0.001 mm
FpFmt(value) == value

\* FootprintWriter._sanitize_name on the names of the model
fp_sanitize_name(name) ==
    CASE name = "" -> "Footprint"
      [] name = "1N4148" -> "_1N4148"
      [] OTHER -> name

\* FootprintWriter._write_properties
fp_write_properties(ind, footprint) ==
    <<Line(ind, <<"property", "Reference", "REF**">>),
      Line(ind + 1, <<"at", "0 -2 0">>), Line(ind + 1, <<"layer", "F.SilkS">>),
      Line(ind + 1, <<"uuid", 1>>), Line(ind + 1, <<"effects">>), Line(ind, <<")">>),
      Line(ind, <<"property", "Value", footprint.name>>),
      Line(ind + 1, <<"at", "0 2 0">>), Line(ind + 1, <<"layer", "F.Fab">>),
      Line(ind + 1, <<"uuid", 2>>), Line(ind + 1, <<"effects">>), Line(ind, <<")">>)>>

\* FootprintWriter._write_lines
write_lines(ind, footprint) ==
    Flatten([k \in DOMAIN footprint.lines |->
        LET line == footprint.lines[k]
        IN  <<Line(ind, <<"fp_line">>),
              Line(ind + 1, <<"start", FpFmt(line.x1), FpFmt(line.y1)>>),
              Line(ind + 1, <<"end", FpFmt(line.x2), FpFmt(line.y2)>>),
              Line(ind + 1, <<"stroke", FpFmt(line.stroke_width)>>),
              Line(ind + 1, <<"layer", line.layer>>),
              Line(ind, <<")">>)>>])

\* FootprintWriter._write_circles; fill is the default of FootprintCircle
fp_write_circles(ind, footprint) ==
    Flatten([k \in DOMAIN footprint.circles |->
        LET circle == footprint.circles[k]
        IN  <<Line(ind, <<"fp_circle">>),
              Line(ind + 1, <<"center", FpFmt(circle.cx), FpFmt(circle.cy)>>),
              Line(ind + 1, <<"end", FpFmt(circle.cx + circle.radius), FpFmt(circle.cy)>>),
              Line(ind + 1, <<"stroke", FpFmt(circle.stroke_width)>>),
              Line(ind + 1, <<"fill", "none">>),
              Line(ind + 1, <<"layer", circle.layer>>),
              Line(ind, <<")">>)>>])

\* FootprintWriter._write_arcs
fp_write_arcs(ind, footprint) ==
    Flatten([k \in DOMAIN footprint.arcs |->
        LET arc == footprint.arcs[k]
        IN  <<Line(ind, <<"fp_arc">>),
              Line(ind + 1, <<"start", arc.cx, arc.cy, arc.radius, arc.start_angle>>),
              Line(ind + 1, <<"mid", arc.cx, arc.cy, arc.radius,
                              arc.start_angle + arc.end_angle>>),
              Line(ind + 1, <<"end", arc.cx, arc.cy, arc.radius, arc.end_angle>>),
              Line(ind + 1, <<"stroke", FpFmt(arc.stroke_width)>>),
              Line(ind + 1, <<"layer", arc.layer>>),
              Line(ind, <<")">>)>>])

\* FootprintWriter._write_polygons; fill is the default of FootprintPolygon
write_polygons(ind, footprint) ==
    Flatten([k \in DOMAIN footprint.polygons |->
        LET polygon == footprint.polygons[k]
        IN  IF Len(polygon.points) < 3 THEN <<>>
            ELSE <<Line(ind, <<"fp_poly">>), Line(ind + 1, <<"pts">>)>>
                 \o [n \in DOMAIN polygon.points |->
                        Line(ind + 2, <<"xy", FpFmt(polygon.points[n][1]),
                                        FpFmt(polygon.points[n][2])>>)]
                 \o <<Line(ind + 1, <<")">>),
                       Line(ind + 1, <<"stroke", FpFmt(polygon.stroke_width)>>),
                       Line(ind + 1, <<"fill", "solid">>),
                       Line(ind + 1, <<"layer", polygon.layer>>),
                       Line(ind, <<")">>)>>])

\* FootprintWriter._write_texts
write_texts(ind, footprint) ==
    Flatten([k \in DOMAIN footprint.texts |->
        LET text == footprint.texts[k]
        IN  IF text.text_type \in {"reference", "value"} THEN <<>>
            ELSE <<Line(ind, <<"fp_text", "user">>),
                   Line(ind + 1, <<text.text>>),
                   Line(ind + 1, <<"at", FpFmt(text.x), FpFmt(text.y), text.rotation>>),
                   Line(ind + 1, <<"layer", text.layer>>),
                   Line(ind + 1, <<"effects", FpFmt(text.font_size), FpFmt(text.thickness)>>),
                   Line(ind, <<")">>)>>])

\* FootprintWriter._write_pads; no pad of the converter is roundrect or npth
write_pads(ind, footprint) ==
    Flatten([k \in DOMAIN footprint.pads |->
        LET pad == footprint.pads[k]
        IN  <<Line(ind, <<"pad", pad.number, pad.pad_type, pad.shape>>),
              Line(ind + 1, IF pad.rotation # 0
                            THEN <<"at", FpFmt(pad.x), FpFmt(pad.y), FpFmt(pad.rotation)>>
                            ELSE <<"at", FpFmt(pad.x), FpFmt(pad.y)>>),
              Line(ind + 1, <<"size", FpFmt(pad.width), FpFmt(pad.height)>>)>>
            \o (IF pad.pad_type = "thru_hole" /\ pad.drill_size > 0
                THEN <<Line(ind + 1, <<"drill", FpFmt(pad.drill_size)>>)>> ELSE <<>>)
            \o <<Line(ind + 1, <<"layers", pad.layers>>),
                  Line(ind, <<")">>)>>])

\* FootprintWriter._write_holes
write_holes(ind, footprint) ==
    Flatten([k \in DOMAIN footprint.holes |->
        LET hole == footprint.holes[k]
        IN  <<Line(ind, <<"pad", "", "np_thru_hole", "circle">>),
              Line(ind + 1, <<"at", FpFmt(hole.x), FpFmt(hole.y)>>),
              Line(ind + 1, <<"size", FpFmt(hole.diameter), FpFmt(hole.diameter)>>),
              Line(ind + 1, <<"drill", FpFmt(hole.diameter)>>),
              Line(ind + 1, <<"layers", <<"*.Cu", "*.Mask">>>>),
              Line(ind, <<")">>)>>])

\* FootprintWriter._write_3d_model
write_3d_model(ind, model_path, offset, rotation, scale) ==
    <<Line(ind, <<"model", model_path>>),
      Line(ind + 1, <<"offset", FpFmt(offset[1]), FpFmt(offset[2]), FpFmt(offset[3])>>),
      Line(ind + 1, <<"scale", FpFmt(scale[1]), FpFmt(scale[2]), FpFmt(scale[3])>>),
      Line(ind + 1, <<"rotate", FpFmt(rotation[1]), FpFmt(rotation[2]), FpFmt(rotation[3])>>),
      Line(ind, <<")">>)>>

\* a write_footprint that puts the model block before the pads
WriteFootprintModelFirst(footprint, model_path, model_offset, model_rotation, model_scale) ==
    <<Line(0, <<"footprint", fp_sanitize_name(footprint.name)>>),
      Line(1, <<"version">>), Line(1, <<"generator">>), Line(1, <<"generator_version">>),
      Line(1, <<"layer", "F.Cu">>)>>
    \o fp_write_properties(1, footprint)
    \o <<Line(1, <<"attr", "smd">>)>>
    \o write_lines(1, footprint)
    \o fp_write_circles(1, footprint)
    \o fp_write_arcs(1, footprint)
    \o write_polygons(1, footprint)
    \o write_texts(1, footprint)
    \o (IF model_path # None /\ model_path[1] # ""
        THEN write_3d_model(1, model_path[1], model_offset, model_rotation, model_scale)
        ELSE <<>>)
    \o write_pads(1, footprint)
    \o write_holes(1, footprint)
    \o <<Line(0, <<")">>)>>

\* FootprintWriter.write_footprint; model_path is None, Some("") or Some(path)
write_footprint(footprint, model_path, model_offset, model_rotation, model_scale) ==
    <<Line(0, <<"footprint", fp_sanitize_name(footprint.name)>>),
      Line(1, <<"version">>), Line(1, <<"generator">>), Line(1, <<"generator_version">>),
      Line(1, <<"layer", "F.Cu">>)>>
    \o fp_write_properties(1, footprint)
    \o <<Line(1, <<"attr", "smd">>)>>
    \o write_lines(1, footprint)
    \o fp_write_circles(1, footprint)
    \o fp_write_arcs(1, footprint)
    \o write_polygons(1, footprint)
    \o write_texts(1, footprint)
    \o write_pads(1, footprint)
    \o write_holes(1, footprint)
    \o (IF model_path # None /\ model_path[1] # ""
        THEN write_3d_model(1, model_path[1], model_offset, model_rotation, model_scale)
        ELSE <<>>)
    \o <<Line(0, <<")">>)>>

(***************************************************************************)
(* Serialization of one footprint.  parseIn holds the arguments of the      *)
(* write_footprint call, parseOut the text it returned.                     *)
(***************************************************************************)
\* a payload with a primitive of every kind
FullShapes ==
    <<PadA, TrackA, ViaA, CircleA, HoleA, ArcA, TextA, SolidA, TextUser, TextValue, PadText>>

WriteFootprints ==
    {footprint_convert(Payload("dict", shape, None), "C1")[1] :
        shape \in SeqsUpTo(FootprintShapes, MaxShapes) \cup {FullShapes}}

ModelPaths == {None, Some(""), Some("C1.step")}
ModelTransforms ==
    {Transform(<<0, 0, 0>>, <<0, 0, 0>>, <<1, 1, 1>>),
     Transform(<<1000, 0, -500>>, <<0, 0, 90>>, <<1, 1, 2>>)}

WriteRequest(footprint, model_path, t) ==
    [footprint |-> footprint, model_path |-> model_path, model_offset |-> t.offset,
     model_rotation |-> t.rotation, model_scale |-> t.scale]

InitFpWrite ==
    /\ StoreIdle
    /\ LibIdle
    /\ ConcIdle
    /\ WriteIdle
    /\ GuiIdle
    /\ parseIn \in {Some(WriteRequest(fp, mp, t)) :
                        fp \in WriteFootprints, mp \in ModelPaths, t \in ModelTransforms}
    /\ parseOut = None

\* FootprintWriter.write_footprint(footprint, model_path, model_offset, ...)
WriteFootprint ==
    /\ parseIn # None
    /\ parseOut = None
    /\ parseOut' = Some(Converted("write_footprint",
            write_footprint(parseIn[1].footprint, parseIn[1].model_path,
                            parseIn[1].model_offset, parseIn[1].model_rotation,
                            parseIn[1].model_scale)))
    /\ UNCHANGED <<parseIn, storeVars, libVars, concVars, writeVars, guiVars, last>>

NextFpWrite == WriteFootprint

SpecFpWrite == InitFpWrite /\ [][NextFpWrite]_vars

\* the place of a top-level line of a footprint text in the order of sections
SectionRank(l) ==
    CASE l[2][1] \in {"version", "generator", "generator_version", "layer"} -> 1
      [] l[2][1] = "property" -> 2
      [] l[2][1] = "attr" -> 3
      [] l[2][1] = "fp_line" -> 4
      [] l[2][1] = "fp_circle" -> 5
      [] l[2][1] = "fp_arc" -> 6
      [] l[2][1] = "fp_poly" -> 7
      [] l[2][1] = "fp_text" -> 8
      [] l[2][1] = "pad" /\ l[2][3] # "np_thru_hole" -> 9
      [] l[2][1] = "pad" /\ l[2][3] = "np_thru_hole" -> 10
      [] l[2][1] = "model" -> 11
      [] OTHER -> 0

\* the lines that open a top-level block of a footprint text
TopLevel(text) == SelectSeq(text, LAMBDA l : l[1] = 1 /\ l[2][1] # ")")

\* how many top-level blocks of a text belong to a section
Blocks(text, rank) == Len(SelectSeq(TopLevel(text), LAMBDA l : SectionRank(l) = rank))

Supplied(model_path) == model_path # None /\ model_path[1] # ""

FootprintWritten == parseOut # None /\ parseOut[1].by = "write_footprint"

\* C23: write_footprint emits header and layer declaration, the Reference
\* and Value properties, lines, circles, arcs, polygons, user texts (texts of
\* type reference or value left out), pads, non-plated holes and last the
\* model block, in this order; the model block is there exactly when a model
\* path was supplied, and only the closing delimiter follows it.
C23_FootprintSectionOrder ==
    FootprintWritten =>
        LET text == parseOut[1].ret
            fp == parseIn[1].footprint
            top == TopLevel(text)
        IN  /\ text[1] = Line(0, <<"footprint", fp_sanitize_name(fp.name)>>)
            /\ text[Len(text)] = Line(0, <<")">>)
            /\ \A k \in DOMAIN top : SectionRank(top[k]) # 0
            /\ \A k \in 1..(Len(top) - 1) : SectionRank(top[k]) <= SectionRank(top[k + 1])
            /\ Blocks(text, 1) = 4
            /\ Blocks(text, 2) = 2
            /\ top[5][2][2] = "Reference" /\ top[6][2][2] = "Value"
            /\ Blocks(text, 4) = Len(fp.lines)
            /\ Blocks(text, 5) = Len(fp.circles)
            /\ Blocks(text, 6) = Len(fp.arcs)
            /\ Blocks(text, 7) = Len(SelectSeq(fp.polygons, LAMBDA g : Len(g.points) >= 3))
            /\ Blocks(text, 8) = Len(SelectSeq(fp.texts, LAMBDA t : t.text_type = "user"))
            /\ Blocks(text, 9) = Len(fp.pads)
            /\ Blocks(text, 10) = Len(fp.holes)
            /\ Blocks(text, 11) = IF Supplied(parseIn[1].model_path) THEN 1 ELSE 0
            /\ Supplied(parseIn[1].model_path) =>
                  SubSeq(text, Len(text) - 5, Len(text) - 1)
                    = write_3d_model(1, parseIn[1].model_path[1], parseIn[1].model_offset,
                                     parseIn[1].model_rotation, parseIn[1].model_scale)

\* a footprint with primitives of every kind, a reference and a value text
\* among them, written with a model path
C23_Witness ==
    /\ FootprintWritten
    /\ Supplied(parseIn[1].model_path)
    /\ \A rank \in 4..11 : Blocks(parseOut[1].ret, rank) >= 1
    /\ Len(parseIn[1].footprint.texts) = 3
    /\ Blocks(parseOut[1].ret, 8) = 1

(***************************************************************************)
(* The library manager.  A component is what the API returned for an id.   *)
(* With use_easyeda2kicad false the manager converts with its own          *)
(* converters and writers; with it true the conversion is the work of the  *)
(* easyeda2kicad package, which is no part of this repository: what the    *)
(* package returns is drawn from the outcomes its callers provide for.     *)
(***************************************************************************)
Component(lcsc_id, mpn, symbol_data, footprint_data, model_3d_uuid) ==
    [lcsc_id |-> lcsc_id, mpn |-> mpn, symbol_data |-> symbol_data,
     footprint_data |-> footprint_data, model_3d_uuid |-> model_3d_uuid]

\* ComponentInfo.has_symbol / has_footprint / has_3d_model
has_symbol(component) == component.symbol_data # None
has_footprint(component) == component.footprint_data # None
has_3d_model(component) == component.model_3d_uuid # None

\* LibraryManager._make_component_name; the names of the model hold no
\* character the substitutions change
make_component_name(component) ==
    IF component.mpn # "" THEN component.mpn ELSE component.lcsc_id

\* LibraryManager.is_imported
is_imported(mf, lcsc_id) == Upper(lcsc_id) \in DOMAIN mf

Outcome(raised, success, msg) == [raised |-> raised, success |-> success, msg |-> msg]

GoodSymbol == Payload("dict", <<PinA, RectangleA>>, None)
GoodFootprint == Payload("dict", <<PadA, PadB>>, None)
BadData == Payload("badjson", <<>>, None)

ComponentNames == {"c1", "C2", "1N4148"}

\* the conversions the library manager asks of its two converters, for the
\* payloads and names of the model
ConvertedSymbols ==
    [d \in {GoodSymbol, BadData}, n \in ComponentNames |-> symbol_convert(d, n)]
ConvertedFootprints ==
    [d \in {GoodFootprint, BadData}, n \in ComponentNames |-> footprint_convert(d, n)]

\* re.search(r'\(symbol "<name>"', lib_content): a block of the library has the name
HasSymbol(lib, symbol_name) == \E i \in DOMAIN lib : lib[i] = symbol_name

\* LibraryManager._remove_symbol_from_lib: the library without the first
\* block of that name
remove_symbol_from_lib(lib, symbol_name) ==
    IF ~HasSymbol(lib, symbol_name) THEN lib
    ELSE LET start == CHOOSE i \in DOMAIN lib :
                        lib[i] = symbol_name /\ \A j \in 1..(i - 1) : lib[j] # symbol_name
         IN  SubSeq(lib, 1, start - 1) \o SubSeq(lib, start + 1, Len(lib))

\* the name of the block _convert_symbol_custom returns: SymbolWriter names it
\* _sanitize_name(symbol.name or lcsc_id), symbol.name being the component name
CustomSymbolName(component, component_name) ==
    sanitize_name(IF component_name # "" THEN component_name ELSE component.lcsc_id)

\* the block _convert_symbol_custom / _convert_symbol_easyeda2kicad returns,
\* None when the conversion fails.  The easyeda2kicad exporter is not given
\* the component name: ee tells whether it fails ("none"), names the block
\* as the manager names the component ("named") or otherwise ("renamed").
convert_symbol(component, component_name, easyeda, ee) ==
    IF easyeda
    THEN CASE ee = "none" -> None
           [] ee = "named" -> Some(component_name)
           [] OTHER -> Some("EE")
    ELSE IF ConvertedSymbols[component.symbol_data[1], component_name] = None THEN None
    ELSE Some(CustomSymbolName(component, component_name))

\* an _import_symbol whose try block does not cover the write of the library
ImportSymbolUncaught(lib, component, component_name, overwrite, easyeda, ee, io) ==
    IF HasSymbol(lib, component_name) /\ ~overwrite
    THEN [out |-> Outcome(FALSE, FALSE, "Symbol already exists"), symLib |-> lib]
    ELSE IF convert_symbol(component, component_name, easyeda, ee) = None
    THEN [out |-> Outcome(FALSE, FALSE, "Failed to convert symbol data"), symLib |-> lib]
    ELSE IF io = "raises"
    THEN [out |-> Outcome(TRUE, FALSE, "error"), symLib |-> lib]
    ELSE [out |-> Outcome(FALSE, TRUE, "Symbol added"),
          symLib |-> Append(remove_symbol_from_lib(lib, component_name),
                            convert_symbol(component, component_name, easyeda, ee)[1])]

\* LibraryManager._import_symbol on the library of the category: a block of
\* the component's name is removed when overwrite is on, the converted block
\* is put before the last ")" of the file.  io is whether writing raises.
import_symbol(lib, component, component_name, overwrite, easyeda, ee, io) ==
    IF HasSymbol(lib, component_name) /\ ~overwrite
    THEN [out |-> Outcome(FALSE, FALSE, "Symbol already exists"), symLib |-> lib]
    ELSE IF convert_symbol(component, component_name, easyeda, ee) = None
    THEN [out |-> Outcome(FALSE, FALSE, "Failed to convert symbol data"), symLib |-> lib]
    ELSE IF io = "raises"
    THEN [out |-> Outcome(FALSE, FALSE, "error"), symLib |-> lib]     \* caught
    ELSE [out |-> Outcome(FALSE, TRUE, "Symbol added"),
          symLib |-> Append(remove_symbol_from_lib(lib, component_name),
                            convert_symbol(component, component_name, easyeda, ee)[1])]

\* what save_footprint writes of the 3D model: nothing without a model path
ModelBlock(model_path, t) == IF model_path THEN Some(t) ELSE None

\* LibraryManager._convert_footprint_custom: raised (an exception leaves it),
\* success, and the files after it
convert_footprint_custom(files, ov, component, component_name, model_path, model_offset, model_rotation, model_scale, io) ==
    With(ConvertedFootprints[component.footprint_data[1], component_name],
         LAMBDA footprint :
    IF footprint = None THEN [raised |-> FALSE, success |-> FALSE, fpFiles |-> files]
    ELSE IF model_path /\ model_offset = <<0, 0, 0>> /\ model_rotation = <<0, 0, 0>>
    THEN With(calculate_transform(ov, component.lcsc_id, footprint[1]), LAMBDA t :
            IF t.raised \/ io = "raises"
            THEN [raised |-> TRUE, success |-> FALSE, fpFiles |-> files]
            ELSE [raised |-> FALSE, success |-> TRUE,
                  fpFiles |-> MapPut(files, component_name, Some(t.val[1]))])
    ELSE IF io = "raises"
    THEN [raised |-> TRUE, success |-> FALSE, fpFiles |-> files]
    ELSE [raised |-> FALSE, success |-> TRUE,
          fpFiles |-> MapPut(files, component_name,
              ModelBlock(model_path,
                         Transform(model_offset, model_rotation, model_scale)))])

\* the model block of a file the easyeda2kicad exporter wrote with a model of
\* its own: _add_3d_model_to_footprint leaves such a file as it is
ExporterBlock == [exporter |-> TRUE]

\* LibraryManager._convert_footprint_easyeda2kicad with
\* _add_3d_model_to_footprint.  ee is what the package does: get_footprint
\* gives None ("none"), the file is exported without a model block ("plain")
\* or with one ("model"); an exception (io) is caught and gives False.
convert_footprint_easyeda2kicad(files, component, component_name, model_path, model_offset, model_rotation, model_scale, ee, io) ==
    IF ee = "none" \/ io = "raises"
    THEN [raised |-> FALSE, success |-> FALSE, fpFiles |-> files]
    ELSE IF ee = "model"
    THEN [raised |-> FALSE, success |-> TRUE,
          fpFiles |-> MapPut(files, component_name, Some(ExporterBlock))]
    ELSE [raised |-> FALSE, success |-> TRUE,
          fpFiles |-> MapPut(files, component_name,
              ModelBlock(model_path,
                         Transform(model_offset, model_rotation, model_scale)))]

\* the converter use_easyeda2kicad selects
convert_footprint(files, ov, component, component_name, model_path, model_offset, model_rotation, model_scale, easyeda, ee, io) ==
    IF easyeda
    THEN convert_footprint_easyeda2kicad(files, component, component_name, model_path,
                                         model_offset, model_rotation, model_scale, ee, io)
    ELSE convert_footprint_custom(files, ov, component, component_name, model_path,
                                  model_offset, model_rotation, model_scale, io)

\* LibraryManager._import_footprint; converted tells whether the converter ran
import_footprint(files, ov, component, component_name, overwrite, model_offset, model_rotation, model_scale, easyeda, ee, io) ==
    IF component_name \in DOMAIN files /\ ~overwrite
    THEN [out |-> Outcome(FALSE, FALSE, "Footprint already exists"),
          footprint_name |-> Some(component_name), fpFiles |-> files, converted |-> FALSE]
    ELSE
        With(convert_footprint(files, ov, component, component_name,
                    has_3d_model(component),
                    OrDefault(model_offset, <<0, 0, 0>>),
                    OrDefault(model_rotation, <<0, 0, 0>>),
                    OrDefault(model_scale, <<1, 1, 1>>), easyeda, ee, io),
             LAMBDA c :
            IF c.raised
            THEN [out |-> Outcome(FALSE, FALSE, "error"),                 \* caught
                  footprint_name |-> None, fpFiles |-> files, converted |-> TRUE]
            ELSE IF ~c.success
            THEN [out |-> Outcome(FALSE, FALSE, "Failed to convert footprint data"),
                  footprint_name |-> None, fpFiles |-> files, converted |-> TRUE]
            ELSE [out |-> Outcome(FALSE, TRUE, "Footprint added"),
                  footprint_name |-> Some(component_name), fpFiles |-> c.fpFiles,
                  converted |-> TRUE])

\* LibraryManager._import_3d_model; dl is the outcome of the download
import_3d_model(mods, component, overwrite, dl) ==
    LET lcsc_id == Upper(component.lcsc_id)
    IN  IF lcsc_id \in mods /\ ~overwrite
        THEN [out |-> Outcome(FALSE, TRUE, "3D model already exists"),
              model_path |-> Some(lcsc_id), models |-> mods]
        ELSE IF dl = "ok"
        THEN [out |-> Outcome(FALSE, TRUE, "3D model downloaded"),
              model_path |-> Some(lcsc_id), models |-> mods \cup {lcsc_id}]
        ELSE IF dl = "fails"
        THEN [out |-> Outcome(FALSE, FALSE, "Failed to download 3D model"),
              model_path |-> None, models |-> mods]
        ELSE [out |-> Outcome(FALSE, FALSE, "error"),                     \* caught
              model_path |-> None, models |-> mods]

\* the state the library manager works on: the manifest, the symbol library
\* and the footprint directory of every category, the model files, the
\* override store, the category list and the converter switch
LibState(mf, lib, files, mods, ov, cats, easyeda) ==
    [manifest |-> mf, symLib |-> lib, fpFiles |-> files, models |-> mods,
     overrides |-> ov, categories |-> cats, easyeda |-> easyeda]

Options(import_symbol_, import_footprint_, import_3d_model_, overwrite, category, model_offset, model_rotation, model_scale) ==
    [import_symbol |-> import_symbol_, import_footprint |-> import_footprint_,
     import_3d_model |-> import_3d_model_, overwrite |-> overwrite,
     category |-> category,
     model_offset |-> model_offset, model_rotation |-> model_rotation,
     model_scale |-> model_scale]

\* what the file system, the network and the easyeda2kicad package do during
\* one call
Env(sym_io, fp_io, dl, ee_sym, ee_fp) ==
    [sym_io |-> sym_io, fp_io |-> fp_io, dl |-> dl, ee_sym |-> ee_sym, ee_fp |-> ee_fp]

ManifestEntry(component, category, footprint_name, model_path) ==
    [name |-> make_component_name(component),
     category |-> category,
     has_symbol |-> has_symbol(component),
     has_footprint |-> has_footprint(component),
     has_3d_model |-> has_3d_model(component),
     footprint_name |-> footprint_name,
     model_path |-> model_path]

Result(name, out) == <<name, out.success>>

\* an import that drops the stored override of the component it overwrites
ImportResettingOverride(ov, lcsc_id, model_offset, model_rotation, model_scale) ==
    IF model_offset # None \/ model_rotation # None \/ model_scale # None
    THEN With(set_override(ov, lcsc_id, model_offset, model_rotation, model_scale),
              LAMBDA so : [called |-> TRUE, raised |-> so.raised, ov |-> so.ov])
    ELSE With(remove_override(ov, lcsc_id),
              LAMBDA ro : [called |-> ro.deleted, raised |-> FALSE, ov |-> ro.ov])

\* the end of import_component: the override is saved when custom values came
save_3d_config(ov, lcsc_id, model_offset, model_rotation, model_scale) ==
    IF model_offset # None \/ model_rotation # None \/ model_scale # None
    THEN With(set_override(ov, lcsc_id, model_offset, model_rotation, model_scale),
              LAMBDA so : [called |-> TRUE, raised |-> so.raised, ov |-> so.ov])
    ELSE [called |-> FALSE, raised |-> FALSE, ov |-> ov]

\* the category import_component works in: the one given or the default one
ImportCategory(o) == OrDefault(o.category, DEFAULT_CATEGORY)

\* the tail of import_component once the three artifacts are done: the
\* manifest entry, the saved override, the summary (success when no result
\* failed or when some result succeeded)
finish_import(st, component, o, s, f, m) ==
    LET lcsc_id == Upper(component.lcsc_id)
        category == ImportCategory(o)
        results == (IF o.import_symbol THEN <<Result("Symbol", s.out)>> ELSE <<>>)
                   \o (IF o.import_footprint THEN <<Result("Footprint", f.out)>> ELSE <<>>)
                   \o (IF o.import_3d_model THEN <<Result("3D Model", m.out)>> ELSE <<>>)
    IN  With(save_3d_config(st.overrides, lcsc_id, o.model_offset, o.model_rotation,
                            o.model_scale),
             LAMBDA c :
            [raised_in |-> IF c.raised THEN "set_override" ELSE "none",
             rejected |-> FALSE,
             success |-> /\ ~c.raised
                         /\ \/ \A i \in DOMAIN results : results[i][2]
                            \/ \E i \in DOMAIN results : results[i][2],
             results |-> results,
             converted |-> f.converted,
             saved |-> c.called /\ ~c.raised,
             st |-> [st EXCEPT !.manifest = MapPut(st.manifest, lcsc_id,
                                    ManifestEntry(component, category, f.footprint_name,
                                                  m.model_path)),
                               !.symLib[category] = s.symLib,
                               !.fpFiles[category] = f.fpFiles,
                               !.models = m.models,
                               !.overrides = c.ov]])

\* import_component after its first test: the three artifacts in the
\* libraries of the category, then finish_import.  raised_in names the call
\* an exception left ("none" when the method returned), saved tells whether
\* save_overrides ran, converted whether the footprint converter ran.
import_artifacts(st, component, o, env) ==
    LET category == ImportCategory(o) IN
    With(IF o.import_symbol /\ has_symbol(component)
         THEN import_symbol(st.symLib[category], component,
                            make_component_name(component), o.overwrite,
                            st.easyeda, env.ee_sym, env.sym_io)
         ELSE [out |-> Outcome(FALSE, FALSE, "No symbol data available"),
               symLib |-> st.symLib[category]],
         LAMBDA s :
    IF s.out.raised
    THEN [raised_in |-> "symbol", rejected |-> FALSE, success |-> FALSE,
          results |-> <<>>, converted |-> FALSE, saved |-> FALSE, st |-> st]
    ELSE
    With(IF o.import_footprint /\ has_footprint(component)
         THEN import_footprint(st.fpFiles[category], st.overrides, component,
                               make_component_name(component), o.overwrite,
                               o.model_offset, o.model_rotation, o.model_scale,
                               st.easyeda, env.ee_fp, env.fp_io)
         ELSE [out |-> Outcome(FALSE, FALSE, "No footprint data available"),
               footprint_name |-> None, fpFiles |-> st.fpFiles[category],
               converted |-> FALSE],
         LAMBDA f :
    IF f.out.raised
    THEN [raised_in |-> "footprint", rejected |-> FALSE, success |-> FALSE,
          results |-> <<>>, converted |-> f.converted, saved |-> FALSE,
          st |-> [st EXCEPT !.symLib[category] = s.symLib]]
    ELSE
    With(IF o.import_3d_model /\ has_3d_model(component)
         THEN import_3d_model(st.models, component, o.overwrite, env.dl)
         ELSE [out |-> Outcome(FALSE, FALSE, "No 3D model available"),
               model_path |-> None, models |-> st.models],
         LAMBDA m : finish_import(st, component, o, s, f, m))))

\* an import_component that does not look into the manifest first
ImportIgnoringManifest(st, component, o, env) ==
    import_artifacts(st, component, o, env)

\* LibraryManager.import_component: an id of the manifest is rejected unless
\* overwrite is on, before anything is touched
import_component(st, component, o, env) ==
    IF is_imported(st.manifest, component.lcsc_id) /\ ~o.overwrite
    THEN [raised_in |-> "none", rejected |-> TRUE, success |-> FALSE,
          results |-> <<>>, converted |-> FALSE, saved |-> FALSE, st |-> st]
    ELSE import_artifacts(st, component, o, env)

\* the manifest's category of a component, the default one when it has none
CategoryOf(mf, key) == mf[key].category

\* LibraryManager.regenerate_footprint; cached is what the cache holds for
\* the id.  The converter is given no offset and no rotation and the scale 1.
regenerate_footprint(st, lcsc_id, cached, ee, io) ==
    IF ~is_imported(st.manifest, lcsc_id) THEN [success |-> FALSE, st |-> st]
    ELSE IF cached = None \/ ~has_footprint(cached[1])
    THEN [success |-> FALSE, st |-> st]
    ELSE LET category == CategoryOf(st.manifest, Upper(lcsc_id)) IN
         With(convert_footprint(st.fpFiles[category], st.overrides, cached[1],
                 st.manifest[Upper(lcsc_id)].name, has_3d_model(cached[1]),
                 <<0, 0, 0>>, <<0, 0, 0>>, <<1, 1, 1>>, st.easyeda, ee, io),
              LAMBDA c :
                IF c.raised \/ ~c.success THEN [success |-> FALSE, st |-> st]
                ELSE [success |-> TRUE,
                      st |-> [st EXCEPT !.fpFiles[category] = c.fpFiles]])

\* LibraryManager.update_3d_config
update_3d_config(st, lcsc_id, offset, rotation, scale, cached, ee, io) ==
    IF ~is_imported(st.manifest, lcsc_id)
    THEN [raised |-> FALSE, success |-> FALSE, saved |-> FALSE, st |-> st]
    ELSE With(set_override(st.overrides, lcsc_id, offset, rotation, scale), LAMBDA so :
            IF so.raised
            THEN [raised |-> TRUE, success |-> FALSE, saved |-> FALSE, st |-> st]
            ELSE With(regenerate_footprint([st EXCEPT !.overrides = so.ov],
                                           lcsc_id, cached, ee, io),
                      LAMBDA r : [raised |-> FALSE, success |-> r.success,
                                  saved |-> TRUE, st |-> r.st]))

\* LibraryManager.remove_component
remove_component(st, lcsc_id) ==
    LET key == Upper(lcsc_id)
        ro == remove_override(st.overrides, key)
    IN  IF ~is_imported(st.manifest, lcsc_id)
        THEN [success |-> FALSE, saved |-> FALSE, st |-> st]
        ELSE LET name == st.manifest[key].name
                 category == CategoryOf(st.manifest, key)
             IN [success |-> TRUE, saved |-> ro.deleted,
                 st |-> [st EXCEPT
                    !.manifest = MapDel(st.manifest, key),
                    !.symLib[category] = remove_symbol_from_lib(@, name),
                    !.fpFiles[category] = MapDel(@, name),
                    !.models = st.models \ {key},
                    !.overrides = ro.ov]]

\* LibraryManager._sanitize_category_id on the names of the model
sanitize_category_id(name) ==
    CASE name = "Res" -> "res"
      [] name = "" -> "misc"
      [] OTHER -> name

\* LibraryManager.add_category
add_category(st, category_id) ==
    IF sanitize_category_id(category_id) \in Range(st.categories)
    THEN [success |-> FALSE, st |-> st]
    ELSE [success |-> TRUE,
          st |-> [st EXCEPT !.categories = Append(@, sanitize_category_id(category_id))]]

\* LibraryManager.update_component_category: the symbol block and the
\* footprint file go to the libraries of the new category, the manifest
\* entry takes the new category
update_component_category(st, lcsc_id, new_category) ==
    LET key == Upper(lcsc_id) IN
    IF ~is_imported(st.manifest, lcsc_id) THEN [success |-> FALSE, st |-> st]
    ELSE LET old_category == CategoryOf(st.manifest, key)
             name == st.manifest[key].name
             old_lib == st.symLib[old_category]
             old_files == st.fpFiles[old_category]
         IN  IF old_category = new_category THEN [success |-> TRUE, st |-> st]
             ELSE [success |-> TRUE,
                   st |-> [st EXCEPT
                      !.symLib = IF HasSymbol(old_lib, name)
                                 THEN [@ EXCEPT
                                         ![old_category] = remove_symbol_from_lib(old_lib, name),
                                         ![new_category] = Append(@, name)]
                                 ELSE @,
                      !.fpFiles = IF name \in DOMAIN old_files
                                  THEN [@ EXCEPT
                                          ![old_category] = MapDel(old_files, name),
                                          ![new_category] = MapPut(@, name, old_files[name])]
                                  ELSE @,
                      !.manifest[key].category = new_category]]

\* the components of a category go to the default one, one after the other
RECURSIVE MoveToDefault(_, _, _)
MoveToDefault(st, keys, category_id) ==
    IF keys = {} THEN st
    ELSE LET key == CHOOSE k \in keys : TRUE
         IN  MoveToDefault(
                IF CategoryOf(st.manifest, key) = category_id
                THEN update_component_category(st, key, DEFAULT_CATEGORY).st
                ELSE st,
                keys \ {key}, category_id)

\* the place of a category in the list
IndexOf(cats, category_id) ==
    CHOOSE i \in DOMAIN cats :
        cats[i] = category_id /\ \A j \in 1..(i - 1) : cats[j] # category_id

\* a remove_category that leaves the components of the category where they are
RemoveCategoryKeepingComponents(st, category_id) ==
    IF category_id = DEFAULT_CATEGORY THEN [success |-> FALSE, st |-> st]
    ELSE IF category_id \notin Range(st.categories) THEN [success |-> FALSE, st |-> st]
    ELSE [success |-> TRUE,
          st |-> [st EXCEPT !.categories =
                     SubSeq(@, 1, IndexOf(@, category_id) - 1)
                     \o SubSeq(@, IndexOf(@, category_id) + 1, Len(@))]]

\* LibraryManager.remove_category
remove_category(st, category_id) ==
    IF category_id = DEFAULT_CATEGORY THEN [success |-> FALSE, st |-> st]
    ELSE IF category_id \notin Range(st.categories) THEN [success |-> FALSE, st |-> st]
    ELSE [success |-> TRUE,
          st |-> MoveToDefault(
                    [st EXCEPT !.categories =
                        SubSeq(@, 1, IndexOf(@, category_id) - 1)
                        \o SubSeq(@, IndexOf(@, category_id) + 1, Len(@))],
                    DOMAIN st.manifest, category_id)]

(***************************************************************************)
(* The library manager as a state machine: the calls of the dialog and of   *)
(* the management panel on one library, with the override store beside it.  *)
(* Under SpecLib the manager works in the default category, with its own    *)
(* converters or with easyeda2kicad.                                        *)
(***************************************************************************)
Components ==
    { Component("c1", "", Some(GoodSymbol), Some(GoodFootprint), Some("uuid")),
      Component("c1", "", Some(BadData), Some(GoodFootprint), Some("uuid")),
      Component("c1", "", Some(GoodSymbol), Some(BadData), None) }

ImportFlags == {<<TRUE, TRUE, TRUE>>, <<FALSE, TRUE, FALSE>>}
ModelValues == {<<None, None, None>>, <<Some(<<100, 200, 0>>), Some(<<0, 0, 45>>), None>>}
Envs ==
    { Env("ok", "ok", "ok", "named", "plain"),
      Env("raises", "ok", "ok", "named", "model"),
      Env("ok", "raises", "fails", "named", "plain"),
      Env("raises", "raises", "raises", "named", "plain") }
LibWrites == {"ok"}

CurrentLib ==
    LibState(manifest, symLib, fpFiles, models, overrides, categories, use_easyeda2kicad)

\* the state after a call; saved tells whether save_overrides ran in it
ApplyLib(st, saved, w) ==
    /\ manifest' = st.manifest
    /\ symLib' = st.symLib
    /\ fpFiles' = st.fpFiles
    /\ models' = st.models
    /\ overrides' = st.overrides
    /\ categories' = st.categories
    /\ use_easyeda2kicad' = st.easyeda
    /\ IF saved
       THEN /\ CanWrite(w)
            /\ file' = save_overrides(st.overrides, file, w)
            /\ failures' = Failed(w)
       ELSE /\ w = "ok"
            /\ UNCHANGED <<file, failures>>

LibCall(op, raised_in, wrote, detail) ==
    [op |-> op, raised |-> raised_in # "none", wrote |-> wrote,
     raised_in |-> raised_in, detail |-> detail]

LibInitFiles ==
    { AbsentFile, ListFile,
      FileOf("dict", OneKey("C1", [EmptyEntry EXCEPT !.rotation = Some(<<0, 0, 45>>)])) }

LibIds == {"c1", "C2"}

InitLib ==
    /\ file \in LibInitFiles
    /\ overrides = load_overrides(file)
    /\ pinned = NoPins
    /\ LibEmpty
    /\ use_easyeda2kicad \in BOOLEAN           \* EASYEDA2KICAD_AVAILABLE
    /\ ParseIdle
    /\ ConcIdle
    /\ WriteIdle
    /\ GuiIdle
    /\ failures = 0
    /\ last = Call("init", FALSE, "none")

\* what an import_component call leaves in last
ImportDetail(component, o, values, r) ==
    [rejected |-> r.rejected,
     both |-> /\ o.import_symbol /\ o.import_footprint
              /\ has_symbol(component)
              /\ has_footprint(component),
     overwrite |-> o.overwrite,
     given |-> values # <<None, None, None>>,
     lcsc_id |-> component.lcsc_id,
     name |-> make_component_name(component),
     category |-> ImportCategory(o),
     imported_before |-> is_imported(manifest, component.lcsc_id),
     success |-> r.success,
     results |-> r.results,
     converted |-> r.converted]

\* LibraryManager.import_component
ImportComponent ==
    \E component \in Components, flags \in ImportFlags, overwrite \in BOOLEAN,
       values \in ModelValues, env \in Envs, w \in LibWrites :
        \E o \in {Options(flags[1], flags[2], flags[3], overwrite, None,
                            values[1], values[2], values[3])} :
        \E r \in {import_component(CurrentLib, component, o, env)} :
            /\ ApplyLib(r.st, r.saved, w)
            /\ last' = LibCall("import_component", r.raised_in,
                               IF r.saved THEN w ELSE "none",
                               ImportDetail(component, o, values, r))
            /\ UNCHANGED <<pinned, parseVars, concVars, writeVars, guiVars>>

\* LibraryManager.regenerate_footprint
RegenerateFootprint ==
    \E id \in LibIds, fp_io \in {"ok", "raises"},
       cached \in {None} \cup {Some(c) : c \in Components} :
        \E r \in {regenerate_footprint(CurrentLib, id, cached, "plain", fp_io)} :
            /\ cached # None => Upper(cached[1].lcsc_id) = Upper(id)
            /\ ApplyLib(r.st, FALSE, "ok")
            /\ last' = LibCall("regenerate_footprint", "none", "none",
                               [success |-> r.success])
            /\ UNCHANGED <<pinned, parseVars, concVars, writeVars, guiVars>>

\* LibraryManager.update_3d_config
Update3DConfig ==
    \E id \in LibIds, values \in ModelValues, fp_io \in {"ok", "raises"},
       ee \in {"plain", "model"},
       cached \in {None} \cup {Some(c) : c \in Components}, w \in LibWrites :
        \E r \in {update_3d_config(CurrentLib, id, values[1], values[2], values[3],
                                     cached, ee, fp_io)} :
            /\ cached # None => Upper(cached[1].lcsc_id) = Upper(id)
            /\ ApplyLib(r.st, r.saved, w)
            /\ last' = LibCall("update_3d_config",
                               IF r.raised THEN "set_override" ELSE "none",
                               IF r.saved THEN w ELSE "none",
                               [success |-> r.success, lcsc_id |-> id,
                                cached |-> cached])
            /\ UNCHANGED <<pinned, parseVars, concVars, writeVars, guiVars>>

\* LibraryManager.remove_component
RemoveComponent ==
    \E id \in LibIds, w \in LibWrites :
        \E r \in {remove_component(CurrentLib, id)} :
            /\ ApplyLib(r.st, r.saved, w)
            /\ last' = LibCall("remove_component", "none",
                               IF r.saved THEN w ELSE "none",
                               [success |-> r.success])
            /\ UNCHANGED <<pinned, parseVars, concVars, writeVars, guiVars>>

NextLib ==
    \/ ImportComponent
    \/ RegenerateFootprint
    \/ Update3DConfig
    \/ RemoveComponent

SpecLib == InitLib /\ [][NextLib]_vars

(***************************************************************************)
(* Claims about the library manager, checked under SpecLib.                 *)
(***************************************************************************)
IsImport(call) == call.op = "import_component"

\* C6: an import with overwrite and without model offset, rotation or scale,
\* and a regeneration of the footprint, leave the override store (every
\* entry of it, in memory and in the file) as it was; the store changes
\* only in the calls that reach set_override or remove_override: an import
\* that carries model values, update_3d_config and remove_component.
C6_OverrideSurvivesReimport ==
    [][ /\ ( \/ /\ IsImport(last')
                /\ last'.detail.overwrite
                /\ ~last'.detail.given
             \/ last'.op = "regenerate_footprint" )
           => (overrides' = overrides /\ file' = file)
        /\ (overrides' # overrides)
           => \/ IsImport(last') /\ last'.detail.given
              \/ last'.op \in {"update_3d_config", "remove_component"}
      ]_vars

\* a component that carries a stored offset has been imported again, with
\* overwrite and without model values, and its footprint converted
C6_Witness ==
    /\ IsImport(last)
    /\ last.detail.overwrite
    /\ ~last.detail.given
    /\ last.detail.converted
    /\ overrides.kind = "dict"
    /\ "C1" \in DOMAIN overrides.map
    /\ overrides.map["C1"].offset # None
    /\ "C1" \in DOMAIN manifest

\* C9: in an import that asks for the symbol and the footprint of a component
\* that has both, no exception leaves import_component from the symbol or
\* the footprint step; the footprint converter runs whatever the symbol step
\* gave (unless the file exists and overwrite is off); and the summary lists
\* the symbol outcome and the footprint outcome, each as its own step left
\* the library.
C9_SiblingArtifactsIndependent ==
    [][ (IsImport(last') /\ last'.detail.both /\ ~last'.detail.rejected) =>
            /\ last'.raised_in \notin {"symbol", "footprint"}
            /\ (last'.detail.name \notin DOMAIN fpFiles[DEFAULT_CATEGORY] \/ last'.detail.overwrite)
                   => last'.detail.converted
            /\ last'.raised_in = "none" =>
                   /\ Len(last'.detail.results) >= 2
                   /\ last'.detail.results[1][1] = "Symbol"
                   /\ last'.detail.results[2][1] = "Footprint"
                   /\ IF last'.detail.results[1][2]
                      THEN HasSymbol(symLib'[DEFAULT_CATEGORY], last'.detail.name)
                      ELSE symLib' = symLib
                   /\ IF last'.detail.results[2][2]
                      THEN last'.detail.name \in DOMAIN fpFiles'[DEFAULT_CATEGORY]
                      ELSE fpFiles' = fpFiles
      ]_vars

\* the symbol step failed and the footprint was converted and written all
\* the same
C9_Witness ==
    /\ IsImport(last)
    /\ last.detail.both
    /\ ~last.raised
    /\ last.detail.results[1] = <<"Symbol", FALSE>>
    /\ last.detail.results[2] = <<"Footprint", TRUE>>
    /\ last.detail.converted
    /\ "c1" \in DOMAIN fpFiles[DEFAULT_CATEGORY]
    /\ ~HasSymbol(symLib[DEFAULT_CATEGORY], "c1")

\* C25: after an update_3d_config that returns success for an imported
\* component with a 3D model, the model block of the regenerated footprint
\* file carries the offset, rotation and scale calculate_transform now
\* gives for the id, whichever converter path is in use.
C25_RegeneratedBlockCarriesOverride ==
    [][ ( /\ last'.op = "update_3d_config"
          /\ last'.detail.success
          /\ has_3d_model(last'.detail.cached[1]) ) =>
            LET key == Upper(last'.detail.lcsc_id)
                name == manifest'[key].name
                footprint == ConvertedFootprints[last'.detail.cached[1].footprint_data[1], name]
                t == calculate_transform(overrides', key, footprint[1])
            IN  /\ ~t.raised
                /\ name \in DOMAIN fpFiles'[CategoryOf(manifest', key)]
                /\ fpFiles'[CategoryOf(manifest', key)][name] = Some(t.val[1])
      ]_vars

(***************************************************************************)
(* Two conversions through the one FootprintConverter of the library        *)
(* manager: the import worker thread (_do_import -> import_component ->     *)
(* _convert_footprint_custom) and the UI thread                             *)
(* (_calculate_and_set_model3d_values).  convert is not atomic: a thread    *)
(* can be switched out between any two of its statements, and every         *)
(* statement reaches the footprint through self.current_footprint.  heap    *)
(* holds the EasyEdaFootprint objects, a reference is an index into it.     *)
(***************************************************************************)
Threads == {"worker", "ui"}

PadOne == Shape(<<"PAD", "RECT", "20", "20", "2", "2", "1", "", "1">>)

ThreadPayload(t) ==
    IF t = "worker" THEN Payload("dict", <<PadA, PadB>>, None)
    ELSE Payload("dict", <<PadOne, TrackA>>, None)
ThreadName(t) == IF t = "worker" THEN "c1" ELSE "C2"

InitConc ==
    /\ StoreIdle
    /\ LibIdle
    /\ ParseIdle
    /\ WriteIdle
    /\ GuiIdle
    /\ heap = <<>>
    /\ current_footprint = 0
    /\ pc = [t \in Threads |-> "start"]
    /\ idx = [t \in Threads |-> 1]
    /\ result = [t \in Threads |-> 0]

ConcFrame == UNCHANGED <<storeVars, libVars, parseVars, writeVars, guiVars, last>>

\* self.current_footprint = EasyEdaFootprint(name=component_name)
Allocate(t) ==
    /\ pc[t] = "start"
    /\ heap' = Append(heap, NewFootprint(ThreadName(t)))
    /\ current_footprint' = Len(heap) + 1
    /\ pc' = [pc EXCEPT ![t] = "parse"]
    /\ UNCHANGED <<idx, result>>
    /\ ConcFrame

\* one turn of the loop of _parse_footprint_data: the shape is parsed into
\* the footprint self.current_footprint refers to at that moment
ParseShape(t) ==
    /\ pc[t] = "parse"
    /\ idx[t] <= Len(ThreadPayload(t).shape)
    /\ heap' = [heap EXCEPT ![current_footprint] =
                    ParseShapes(@, <<ThreadPayload(t).shape[idx[t]]>>)]
    /\ idx' = [idx EXCEPT ![t] = @ + 1]
    /\ UNCHANGED <<current_footprint, pc, result>>
    /\ ConcFrame

\* the loop is over: self._calculate_bounds_and_center()
Center(t) ==
    /\ pc[t] = "parse"
    /\ idx[t] > Len(ThreadPayload(t).shape)
    /\ heap' = [heap EXCEPT ![current_footprint] = calculate_bounds_and_center(@)]
    /\ pc' = [pc EXCEPT ![t] = "bounds"]
    /\ UNCHANGED <<current_footprint, idx, result>>
    /\ ConcFrame

\* self._calculate_bounds()
Bounds(t) ==
    /\ pc[t] = "bounds"
    /\ heap' = [heap EXCEPT ![current_footprint] = calculate_bounds(@)]
    /\ pc' = [pc EXCEPT ![t] = "courtyard"]
    /\ UNCHANGED <<current_footprint, idx, result>>
    /\ ConcFrame

\* if not self.current_footprint.has_courtyard(): self._generate_courtyard()
Courtyard(t) ==
    /\ pc[t] = "courtyard"
    /\ heap' = [heap EXCEPT ![current_footprint] =
                    IF has_courtyard(@) THEN @ ELSE generate_courtyard(@)]
    /\ pc' = [pc EXCEPT ![t] = "return"]
    /\ UNCHANGED <<current_footprint, idx, result>>
    /\ ConcFrame

\* return self.current_footprint
Return(t) ==
    /\ pc[t] = "return"
    /\ result' = [result EXCEPT ![t] = current_footprint]
    /\ pc' = [pc EXCEPT ![t] = "done"]
    /\ UNCHANGED <<heap, current_footprint, idx>>
    /\ ConcFrame

NextConc ==
    \E t \in Threads :
        \/ Allocate(t)
        \/ ParseShape(t)
        \/ Center(t)
        \/ Bounds(t)
        \/ Courtyard(t)
        \/ Return(t)

SpecConc == InitConc /\ [][NextConc]_vars

\* the primitives the payload of t gives when it is parsed on its own
Own(t) == parse_footprint_data(NewFootprint(ThreadName(t)), ThreadPayload(t))

SamePad(p, q) == p.number = q.number /\ p.width = q.width /\ p.height = q.height
SameLine(l, k) == l.layer = k.layer /\ l.stroke_width = k.stroke_width

\* every pad and every drawn line of fp comes from the payload of t
OnlyOwn(t, fp) ==
    /\ \A i \in DOMAIN fp.pads : \E j \in DOMAIN Own(t).pads :
            SamePad(fp.pads[i], Own(t).pads[j])
    /\ \A i \in DOMAIN fp.lines :
            \/ fp.lines[i].layer = "F.CrtYd"
            \/ \E j \in DOMAIN Own(t).lines : SameLine(fp.lines[i], Own(t).lines[j])

\* C10: when the two interleaved conversions have returned, the footprint
\* each one returned holds only primitives of its own payload.
C10_ConversionsIsolated ==
    (\A t \in Threads : pc[t] = "done") =>
        \A t \in Threads : OnlyOwn(t, heap[result[t]])

(***************************************************************************)
(* The library manager with its categories and both converter paths: the    *)
(* calls of the dialog and of the management panel, among them imports into *)
(* a category, imports of a component named by an mpn that starts with a    *)
(* digit, and the category operations.  The libraries of every category id  *)
(* exist and are empty at the start, as _ensure_category_libs_exist makes   *)
(* them.                                                                    *)
(***************************************************************************)
CompA == Component("c1", "", Some(GoodSymbol), Some(GoodFootprint), None)
CompDigit == Component("C2", "1N4148", Some(GoodSymbol), None, None)
CompNothing == Component("c1", "", None, Some(BadData), None)
ManageComponents == {CompA, CompDigit, CompNothing}

ManageEnvs == {Env("ok", "ok", "ok", "named", "plain")}

CategoryNames == {"res", "Res"}

\* the model follows the symbol libraries up to MaxBlocks symbol blocks
MaxBlocks == 2
TotalBlocks(lib) == Len(lib[DEFAULT_CATEGORY]) + Len(lib["res"])

InitManage ==
    /\ file = AbsentFile
    /\ overrides = load_overrides(file)
    /\ pinned = NoPins
    /\ LibEmpty
    /\ use_easyeda2kicad \in BOOLEAN           \* EASYEDA2KICAD_AVAILABLE
    /\ ParseIdle
    /\ ConcIdle
    /\ WriteIdle
    /\ GuiIdle
    /\ failures = 0
    /\ last = Call("init", FALSE, "none")

\* LibraryManager.import_component, into a category
ManageImport ==
    \E component \in ManageComponents, overwrite \in BOOLEAN,
       category \in {None, Some("res")}, values \in {<<None, None, None>>},
       env \in ManageEnvs :
        \E o \in {Options(TRUE, TRUE, TRUE, overwrite, category,
                            values[1], values[2], values[3])} :
        \E r \in {import_component(CurrentLib, component, o, env)} :
            /\ TotalBlocks(r.st.symLib) <= MaxBlocks
            /\ ApplyLib(r.st, r.saved, "ok")
            /\ last' = LibCall("import_component", r.raised_in,
                               IF r.saved THEN "ok" ELSE "none",
                               ImportDetail(component, o, values, r))
            /\ UNCHANGED <<pinned, parseVars, concVars, writeVars, guiVars>>

\* LibraryManager.remove_component
ManageRemoveComponent ==
    \E id \in LibIds :
        \E r \in {remove_component(CurrentLib, id)} :
            /\ ApplyLib(r.st, r.saved, "ok")
            /\ last' = LibCall("remove_component", "none",
                               IF r.saved THEN "ok" ELSE "none",
                               [success |-> r.success,
                                name |-> IF r.success THEN manifest[Upper(id)].name
                                         ELSE "",
                                category |-> IF r.success
                                             THEN CategoryOf(manifest, Upper(id))
                                             ELSE DEFAULT_CATEGORY])
            /\ UNCHANGED <<pinned, parseVars, concVars, writeVars, guiVars>>

\* LibraryManager.add_category
AddCategory ==
    \E name \in CategoryNames :
        \E r \in {add_category(CurrentLib, name)} :
            /\ ApplyLib(r.st, FALSE, "ok")
            /\ last' = LibCall("add_category", "none", "none", [success |-> r.success])
            /\ UNCHANGED <<pinned, parseVars, concVars, writeVars, guiVars>>

\* LibraryManager.remove_category
RemoveCategory ==
    \E category_id \in CategoryIds :
        \E r \in {remove_category(CurrentLib, category_id)} :
            /\ ApplyLib(r.st, FALSE, "ok")
            /\ last' = LibCall("remove_category", "none", "none",
                               [success |-> r.success, category_id |-> category_id,
                                moved |-> {k \in DOMAIN manifest :
                                             CategoryOf(manifest, k) = category_id}])
            /\ UNCHANGED <<pinned, parseVars, concVars, writeVars, guiVars>>

\* LibraryManager.update_component_category
UpdateComponentCategory ==
    \E id \in LibIds, new_category \in CategoryIds :
        \E r \in {update_component_category(CurrentLib, id, new_category)} :
            /\ TotalBlocks(r.st.symLib) <= MaxBlocks
            /\ ApplyLib(r.st, FALSE, "ok")
            /\ last' = LibCall("update_component_category", "none", "none",
                               [success |-> r.success])
            /\ UNCHANGED <<pinned, parseVars, concVars, writeVars, guiVars>>

NextManage ==
    \/ ManageImport
    \/ ManageRemoveComponent
    \/ AddCategory
    \/ RemoveCategory
    \/ UpdateComponentCategory

SpecManage == InitManage /\ [][NextManage]_vars


(***************************************************************************)
(* Claims about the library manager and its categories, checked under       *)
(* SpecManage.                                                              *)
(***************************************************************************)
\* the name of the block the converter in use writes for a component name
WrittenName(name) == IF use_easyeda2kicad THEN name ELSE sanitize_name(name)

Count(lib, block) == Cardinality({i \in DOMAIN lib : lib[i] = block})

SymbolImported(call) ==
    IsImport(call) /\ <<"Symbol", TRUE>> \in Range(call.detail.results)

\* C24: after every symbol import and every removal, a category library
\* holds no second block of a name; the block of a component whose symbol
\* was just imported is there once and is the last block of the library
\* (it went in before the final delimiter); after remove_component the
\* block of the removed component is gone.
C24_OneBlockPerComponent ==
    [][ /\ \A c \in CategoryIds : \A b \in Range(symLib'[c]) : Count(symLib'[c], b) = 1
        /\ SymbolImported(last') =>
              LET lib == symLib'[last'.detail.category]
              IN  /\ lib # <<>>
                  /\ lib[Len(lib)] = WrittenName(last'.detail.name)
        /\ (last'.op = "remove_component" /\ last'.detail.success) =>
              ~HasSymbol(symLib'[last'.detail.category], WrittenName(last'.detail.name))
      ]_vars


\* an import that returned failure after it tried the artifacts asked for
ImportFailed(call) ==
    /\ IsImport(call)
    /\ ~call.raised
    /\ ~call.detail.rejected
    /\ ~call.detail.success

\* C26: an import_component that returns failure because every artifact it
\* was asked for failed leaves the manifest as it was, so that is_imported
\* of the id keeps its value (and a later import without overwrite is not
\* rejected on its account).
C26_FailedImportLeavesManifest ==
    [][ ImportFailed(last') =>
            /\ manifest' = manifest
            /\ is_imported(manifest', last'.detail.lcsc_id)
                 = is_imported(manifest, last'.detail.lcsc_id)
      ]_vars

\* an import of an id of the manifest, without overwrite
ImportOfImported(call) ==
    /\ IsImport(call)
    /\ call.detail.imported_before
    /\ ~call.detail.overwrite

\* C27: import_component of an id already in the manifest, without
\* overwrite, returns failure and leaves the manifest, the category list,
\* the symbol libraries, the footprint files, the model files and the
\* override store (in memory and in its file) as they were.
C27_RejectedImportChangesNothing ==
    [][ ImportOfImported(last') =>
            /\ ~last'.detail.success
            /\ last'.detail.rejected
            /\ ~last'.raised
            /\ UNCHANGED <<manifest, categories, symLib, fpFiles, models, overrides, file>>
      ]_vars

\* such an import was made on a library that holds the component's symbol
\* and footprint, in a category other than the one the import named
C27_Witness ==
    /\ ImportOfImported(last)
    /\ last.detail.lcsc_id = "c1"
    /\ last.detail.category = "res"
    /\ HasSymbol(symLib[DEFAULT_CATEGORY], "c1")
    /\ "c1" \in DOMAIN fpFiles[DEFAULT_CATEGORY]
    /\ manifest["C1"].category = DEFAULT_CATEGORY

\* C28: after a remove_category(c) that returns success, c is not in the
\* category list and no component of the manifest has category c: those
\* that had it are in the default category, the others are as they were;
\* remove_category of the default category returns failure and leaves the
\* category list and the manifest as they were.
C28_RemoveCategoryMovesComponents ==
    [][ last'.op = "remove_category" =>
            LET c == last'.detail.category_id
            IN  /\ last'.detail.success =>
                      /\ c \notin Range(categories')
                      /\ DOMAIN manifest' = DOMAIN manifest
                      /\ \A k \in DOMAIN manifest :
                            /\ manifest'[k].category # c
                            /\ manifest[k].category = c
                                 => manifest'[k].category = DEFAULT_CATEGORY
                            /\ manifest[k].category # c => manifest'[k] = manifest[k]
                /\ c = DEFAULT_CATEGORY =>
                      /\ ~last'.detail.success
                      /\ categories' = categories
                      /\ manifest' = manifest
      ]_vars

\* a category that held a component has been removed, and the component is
\* in the default category with its symbol block
C28_Witness ==
    /\ last.op = "remove_category"
    /\ last.detail.success
    /\ last.detail.moved # {}
    /\ \A k \in last.detail.moved :
          /\ manifest[k].category = DEFAULT_CATEGORY
          /\ HasSymbol(symLib[DEFAULT_CATEGORY], WrittenName(manifest[k].name))


(***************************************************************************)
(* The dialog: the handlers of the Search, Clear and Import controls on the *)
(* UI thread, the worker threads they start, and the callbacks the workers  *)
(* hand to wx.CallAfter, which the UI thread runs one at a time in the      *)
(* order they were posted.                                                  *)
(***************************************************************************)
\* the model follows up to MaxThreads workers at a time, a worker counting
\* until its callback has run
MaxThreads == 3

Gui(search, import, component, thr) ==
    [search_btn |-> search, import_btn |-> import, current_component |-> component,
     threads |-> thr]

CurrentGui == Gui(search_btn, import_btn, current_component, threads)

\* the callbacks a worker posts
SearchFound(lcsc_id) == [cb |-> "on_search_complete", component |-> Some(lcsc_id)]
SearchNone == [cb |-> "on_search_complete", component |-> None]
SearchError == [cb |-> "on_search_error", component |-> None]
ImportComplete == [cb |-> "on_import_complete", component |-> None]

\* LCSCGrabberDialog._on_search_complete
on_search_complete(g, component) ==
    IF component = None
    THEN [g EXCEPT !.search_btn = TRUE, !.current_component = None]
    ELSE [g EXCEPT !.search_btn = TRUE, !.current_component = component,
                   !.import_btn = TRUE]

\* LCSCGrabberDialog._on_search_error
on_search_error(g) == [g EXCEPT !.search_btn = TRUE]

\* LCSCGrabberDialog._on_import_complete
on_import_complete(g) == [g EXCEPT !.import_btn = TRUE]

\* the UI thread runs one posted callback
RunCallback(g, c) ==
    CASE c.cb = "on_search_complete" -> on_search_complete(g, c.component)
      [] c.cb = "on_search_error" -> on_search_error(g)
      [] OTHER -> on_import_complete(g)

RECURSIVE RunCallbacks(_, _)
RunCallbacks(g, cbs) ==
    IF cbs = <<>> THEN g ELSE RunCallbacks(RunCallback(g, Head(cbs)), Tail(cbs))

\* wx.GetApp().Yield() inside a handler: the first k posted callbacks run
Yield(g, k) == RunCallbacks(g, SubSeq(pending, 1, k))

\* the import workers whose completion callback has not run yet
ImportsInFlight ==
    threads.import + Cardinality({i \in DOMAIN pending : pending[i] = ImportComplete})

ApplyGui(g, rest) ==
    /\ search_btn' = g.search_btn
    /\ import_btn' = g.import_btn
    /\ current_component' = g.current_component
    /\ threads' = g.threads
    /\ pending' = rest

GuiFrame == UNCHANGED <<storeVars, libVars, parseVars, concVars, writeVars>>

InitGui ==
    /\ StoreIdle
    /\ LibIdle
    /\ ParseIdle
    /\ ConcIdle
    /\ WriteIdle
    /\ GuiIdle
    /\ last = Call("init", FALSE, "none")

\* LCSCGrabberDialog._on_search, from the Search button or from Enter in the
\* search field (which stays usable while the button is disabled); text is
\* what the field holds
OnSearch ==
    \E text \in {"", "c1"}, enter \in BOOLEAN, k \in 0..Len(pending) :
        /\ enter \/ search_btn
        /\ IF text = ""
           THEN /\ k = 0
                /\ UNCHANGED guiVars
                /\ last' = Call("on_search", FALSE, "none")
           ELSE /\ threads.search + threads.import + Len(pending) < MaxThreads
                /\ ApplyGui([Yield([CurrentGui EXCEPT !.search_btn = FALSE,
                                                      !.import_btn = FALSE], k)
                               EXCEPT !.threads.search = @ + 1],
                            SubSeq(pending, k + 1, Len(pending)))
                /\ last' = Call("on_search", FALSE, "search")
        /\ GuiFrame

\* LCSCGrabberDialog._on_clear
OnClear ==
    /\ ApplyGui([CurrentGui EXCEPT !.current_component = None, !.import_btn = FALSE],
                pending)
    /\ last' = Call("on_clear", FALSE, "none")
    /\ GuiFrame

\* LCSCGrabberDialog._on_import up to thread.start(); any is whether one of
\* the three check boxes is set
on_import(g, any, k) ==
    IF g.current_component = None \/ ~any THEN g
    ELSE [Yield([g EXCEPT !.import_btn = FALSE], k) EXCEPT !.threads.import = @ + 1]

\* LCSCGrabberDialog._on_import, from the Import button
OnImport ==
    \E any \in BOOLEAN, k \in 0..Len(pending) :
        /\ import_btn
        /\ (current_component = None \/ ~any) => k = 0
        /\ threads.search + threads.import + Len(pending) < MaxThreads
        /\ ApplyGui(on_import(CurrentGui, any, k),
                    IF current_component = None \/ ~any THEN pending
                    ELSE SubSeq(pending, k + 1, Len(pending)))
        /\ last' = Call("on_import", FALSE,
                        IF current_component = None \/ ~any THEN "none" ELSE "import")
        /\ GuiFrame

\* the end of a search worker (_do_search): it posts _on_search_complete
\* with the component or with None, or _on_search_error
SearchWorkerEnds ==
    \E c \in {SearchFound("c1"), SearchNone, SearchError} :
        /\ threads.search > 0
        /\ ApplyGui([CurrentGui EXCEPT !.threads.search = @ - 1], Append(pending, c))
        /\ last' = Call("do_search", FALSE, "none")
        /\ GuiFrame

\* the end of an import worker (_do_import): import_component has returned
\* or raised, _on_import_complete is posted
ImportWorkerEnds ==
    /\ threads.import > 0
    /\ ApplyGui([CurrentGui EXCEPT !.threads.import = @ - 1],
                Append(pending, ImportComplete))
    /\ last' = Call("do_import", FALSE, "none")
    /\ GuiFrame

\* the UI thread is idle and runs the oldest posted callback
Dispatch ==
    /\ pending # <<>>
    /\ ApplyGui(RunCallback(CurrentGui, Head(pending)), Tail(pending))
    /\ last' = Call(Head(pending).cb, FALSE, "none")
    /\ GuiFrame

NextGui ==
    \/ OnSearch
    \/ OnClear
    \/ OnImport
    \/ SearchWorkerEnds
    \/ ImportWorkerEnds
    \/ Dispatch

SpecGui == InitGui /\ [][NextGui]_vars

\* C29: at most one import worker is in flight at any time (started, its
\* completion callback not yet run), and while one is in flight the Import
\* button is disabled, whatever the order of search and import events.
C29_OneImportInFlight ==
    /\ ImportsInFlight <= 1
    /\ ImportsInFlight = 1 => ~import_btn


====
